---- MODULE Spec2Model ----
(***************************************************************************)
(* The SMS Gateway Simulator (the Relay): the in-memory message log, the   *)
(* retry queue and its guarded processor, as written in                    *)
(* src/local-sos/government-website/src/App.jsx lines 91-171.              *)
(*                                                                         *)
(* Node runs every handler to its next await without interleaving, so an   *)
(* action is the code between two suspension points.  The suspension       *)
(* points are the two axios.post calls (lines 126 and 152) and the backoff *)
(* timer (line 162).                                                       *)
(***************************************************************************)
EXTENDS Integers, Sequences, FiniteSets, TLC

\* ---- bounds of the model ------------------------------------------------
MaxSubmits == 2
MaxAttempts == 8
MaxCounted == 3
MaxIngests == 2
MaxClients == 1
MaxBases == 2
MaxCapacity == 100
MaxFilled == 110
MaxTokens == 3
MaxPresses == 2
MaxTicks == 2
MaxClock == 1

\* ---- program constants --------------------------------------------------
BackoffCapMs == 60000
BackoffBaseMs == 1000

\* ---- small input sets ---------------------------------------------------
Payloads == {"SOS|ID=HX1", "SOS|ID=HX2"}
EmptyPayload == ""
Undefined == "undefined"
NotDelivered == "none"
Acks == {"ACK|SAFEBASE=BASE_SHOLI|DIST=0.00KM|CAPACITY=AVAILABLE"}
AckData == Acks \cup {Undefined}
Errors == {"timeout of 5000ms exceeded", "Request failed with status code 500"}
DefaultAck == "ACK|UNKNOWN"

VARIABLES
    messages,           \* const messages = []            (line 102)
    retryQueue,         \* const retryQueue = []          (line 103): references into items
    isProcessingQueue,  \* let isProcessingQueue = false  (line 104)
    items,              \* the RetryQueueItem objects ever allocated (line 134), by reference
    reqs,               \* the POST /sms-receiver invocations and their locals
    procs,              \* the processQueue invocations that passed the guard, and their locals
    commandOk,          \* whether a forward completing now gets a 2xx from localhost:6060
    failed,             \* per record: its failed forward attempts so far, counted up to MaxCounted
    delivered,          \* per record: the r.data.ack of the forward that succeeded
    \* the Government Backend (src/local-sos/government-backend/index.js)
    bases,              \* the rows of safe_bases, in SELECT order          (lines 23-30, 110)
    smsLogs,            \* the rows of sms_logs                            (lines 46-50, 86)
    sosEvents,          \* the rows of sos_events                          (lines 34-42, 107)
    ingests,            \* the POST /sos invocations and their locals       (lines 80-142)
    clients,            \* wss.clients: the readyState of each connection   (lines 17, 131)
    inbox,              \* per connection: the frames sent to it            (line 133)
    \* the argument and the result of a function applied on its own
    input,
    output,
    \* the user app (src/unnamed/part_001)
    smsQueue,           \* localStorage 'smsQueue': the items queued locally   (lines 73, 84, 114)
    sends,              \* the sendSOS invocations and their locals             (lines 95-130)
    ticks,              \* the invocations of the retry interval callback       (lines 72-91)
    clock,              \* what Date.now() returns                              (lines 115, 123)
    gateway,            \* the RelayMessageRecords the gateway created for the app's submissions
    answered,           \* the items { id, payload } of which a submission was answered 200
    \* usePeerCompass (src/lib/peer-compass/use-peer-compass.ts)
    targetDeviceId,     \* useState: the selected target                        (line 70)
    handlerTarget,      \* the targetDeviceId the registered handleIncomingData closes over
    remotePeerData,     \* useState                                             (line 69)
    status              \* useState                                             (line 64)

relayVars == <<messages, retryQueue, isProcessingQueue, items, reqs, procs,
               commandOk, failed, delivered>>
cmdVars == <<bases, smsLogs, sosEvents, ingests, clients, inbox>>
pureVars == <<input, output>>
appVars == <<smsQueue, sends, ticks, clock, gateway, answered>>
peerVars == <<targetDeviceId, handlerTarget, remotePeerData, status>>

vars == <<relayVars, cmdVars, pureVars, appVars, peerVars>>

\* ---- pure helpers -------------------------------------------------------

RECURSIVE Pow2(_)
Pow2(n) == IF n = 0 THEN 1 ELSE 2 * Pow2(n - 1)

Min(a, b) == IF a < b THEN a ELSE b

\* Math.min(60000, 1000 * Math.pow(2, item.attempts))            (line 161)
BackoffFromOld(attempts) == Min(BackoffCapMs, BackoffBaseMs * Pow2(attempts - 1))
Backoff(attempts) == Min(BackoffCapMs, BackoffBaseMs * Pow2(attempts))

\* const { payload } = req.body: what a caller can send           (line 117)
SubmitInputs == Payloads \cup {EmptyPayload, Undefined}

\* if (!payload)                                                  (line 118)
FalsyOnlyAbsent(p) == p = Undefined
Falsy(p) == p \in {EmptyPayload, Undefined}

\* r.data?.ack ?? 'ACK|UNKNOWN'                              (lines 127, 153)
AckOfAlwaysDefault(a) == DefaultAck
AckOf(a) == IF a = Undefined THEN DefaultAck ELSE a

\* { id: messages.length + 1, raw: payload, receivedAt, status: 'received' }   (line 121)
NewRecord(msgs, p) ==
    [id |-> Len(msgs) + 1, raw |-> p, status |-> "received", ack |-> Undefined]

\* { id: rec.id, payload, attempts: 0, lastError: err.message }  (line 134)
NewItemOneAttempt(id, p, e) == [id |-> id, payload |-> p, attempts |-> 1, lastError |-> e]
NewItem(id, p, e) == [id |-> id, payload |-> p, attempts |-> 0, lastError |-> e]

\* rec.status = 'queued'                                          (line 133)
FailedStatus == "failed"
QueuedStatus == "queued"

\* retryQueue.push(item)                                          (line 134)
PushFront(q, ref) == <<ref>> \o q
Push(q, ref) == Append(q, ref)

\* retryQueue.shift()                                             (line 156)
ShiftNothing(q) == q
Shift(q) == IF q = <<>> THEN q ELSE Tail(q)

\* messages.find((m) => m.id === item.id): index of the first match, 0 for undefined   (line 154)
\* a find whose predicate matches no record
FindNothing(msgs, id) == 0
Find(msgs, id) ==
    IF \E i \in 1..Len(msgs) : msgs[i].id = id
    THEN CHOOSE i \in 1..Len(msgs) :
            /\ msgs[i].id = id
            /\ \A j \in 1..(i - 1) : msgs[j].id # id
    ELSE 0

\* if (isProcessingQueue) return;                                 (line 146)
NeverGuarded(flag) == FALSE
Guarded(flag) == flag

\* item.attempts += 1                                             (line 158)
NextAttempts(a) == a + 1

\* while (retryQueue.length > 0) { const item = retryQueue[0]; ... await axios.post(...)
\* the processor's locals after the loop test: a forward of the head in flight, or finished
\* (lines 149-152, 166)
LoopHeadLast(q, heap) ==
    IF Len(q) > 0
    THEN [pc |-> "forwarding", item |-> q[Len(q)], sending |-> heap[q[Len(q)]].payload, delay |-> 0]
    ELSE [pc |-> "done", item |-> 0, sending |-> EmptyPayload, delay |-> 0]
LoopHead(q, heap) ==
    IF Len(q) > 0
    THEN [pc |-> "forwarding", item |-> q[1], sending |-> heap[q[1]].payload, delay |-> 0]
    ELSE [pc |-> "done", item |-> 0, sending |-> EmptyPayload, delay |-> 0]

\* isProcessingQueue after the loop test: stays true inside the loop, false at line 166
FlagAfterLoopHeadCleared(q) == FALSE
FlagAfterLoopHead(q) == Len(q) > 0

\* A RetryQueueItem that neither retryQueue nor a processor's local `item` references any
\* more cannot be observed by the program again; its slot is cleared.
Freed == [id |-> 0, payload |-> EmptyPayload, attempts |-> 0, lastError |-> ""]
Live(q, ps) == {q[i] : i \in 1..Len(q)} \cup {ps[i].item : i \in 1..Len(ps)}
Collect(heap, q, ps) == [i \in 1..Len(heap) |-> IF i \in Live(q, ps) THEN heap[i] ELSE Freed]

\* the failed-attempt count of a record, kept exact below MaxCounted
Counted(n) == IF n < MaxCounted THEN n + 1 ELSE n

\* ---- the Government Backend: data ---------------------------------------

\* coordinates are kept in 1/10000 of a degree, distances in 1/100000 km
PSholi == <<128296, 802270>>
PSathya == <<130520, 802043>>
PExample == <<128721, 802254>>
PZero == <<0, 0>>
\* an alert of which only LAT, or only LON, could be read; the other is 0
PLatOnly == <<128296, 0>>
PLonOnly == <<0, 802270>>

\* the two rows init() preloads                                    (lines 56-59)
\* and two more rows a safe_bases table may hold
BaseTwin == [id |-> "BASE_TWIN", lat |-> 128296, lon |-> 802270, capacity |-> 100, filled |-> 100]
BaseExample == [id |-> "BASE_EX", lat |-> 128721, lon |-> 802254, capacity |-> 50, filled |-> 45]
BaseSholi == [id |-> "BASE_SHOLI", lat |-> 128296, lon |-> 802270, capacity |-> 100, filled |-> 10]
BaseSathya == [id |-> "BASE_SATHYA", lat |-> 130520, lon |-> 802043, capacity |-> 80, filled |-> 70]
Preloaded == <<BaseSholi, BaseSathya>>

\* let minD = Infinity                                              (line 112)
Infinity == 2147483647

\* R * c of haversine() for two different points of the model, computed with the
\* arithmetic of lines 70-75 (R = 6371) and kept to 1/100000 km
GreatCircle(p, q) ==
    CASE {p, q} = {PSholi, PSathya}   -> 2485181
      [] {p, q} = {PSholi, PExample}  -> 472897
      [] {p, q} = {PSathya, PExample} -> 2013421
      [] {p, q} = {PSholi, PZero}     -> 894822145
      [] {p, q} = {PSathya, PZero}    -> 894671760
      [] {p, q} = {PExample, PZero}   -> 894822905
      [] {p, q} = {PSholi, PLatOnly}  -> 865515056
      [] {p, q} = {PSathya, PLatOnly} -> 864819577
      [] {p, q} = {PExample, PLatOnly} -> 865411144
      [] {p, q} = {PSholi, PLonOnly}  -> 142658643
      [] {p, q} = {PSathya, PLonOnly} -> 145131834
      [] {p, q} = {PExample, PLonOnly} -> 143131223

\* haversine(lat1, lon1, lat2, lon2)                               (lines 69-76)
\* dLat = dLon = 0 gives a = 0 and c = 2 * atan2(0, 1) = 0
\* with the arguments of atan2 exchanged c becomes pi - c
HaversineSwappedAtan2(lat1, lon1, lat2, lon2) ==
    IF lat2 - lat1 = 0 /\ lon2 - lon1 = 0
    THEN 2001508680
    ELSE 2001508680 - GreatCircle(<<lat1, lon1>>, <<lat2, lon2>>)
Haversine(lat1, lon1, lat2, lon2) ==
    LET dLat == lat2 - lat1
        dLon == lon2 - lon1
    IN IF dLat = 0 /\ dLon = 0
       THEN 0
       ELSE GreatCircle(<<lat1, lon1>>, <<lat2, lon2>>)

\* for (const b of bases) { const d = haversine(...); if (d < minD) { minD = d; nearest = b; } }
\* nearest is the index of the row, 0 for null                    (lines 111-116)
RECURSIVE ScanLast(_, _, _, _, _)
ScanLast(bs, i, lat, lon, acc) ==
    IF i > Len(bs)
    THEN acc
    ELSE LET d == Haversine(lat, lon, bs[i].lat, bs[i].lon)
         IN ScanLast(bs, i + 1, lat, lon,
                     IF d <= acc.minD THEN [minD |-> d, nearest |-> i] ELSE acc)
RECURSIVE Scan(_, _, _, _, _)
Scan(bs, i, lat, lon, acc) ==
    IF i > Len(bs)
    THEN acc
    ELSE LET d == Haversine(lat, lon, bs[i].lat, bs[i].lon)
         IN Scan(bs, i + 1, lat, lon,
                 IF d < acc.minD THEN [minD |-> d, nearest |-> i] ELSE acc)

NearestFirstRow(bs, lat, lon) ==
    IF bs = <<>>
    THEN [minD |-> Infinity, nearest |-> 0]
    ELSE [minD |-> Haversine(lat, lon, bs[1].lat, bs[1].lon), nearest |-> 1]
Nearest(bs, lat, lon) == Scan(bs, 1, lat, lon, [minD |-> Infinity, nearest |-> 0])

\* Math.ceil(capacity * 0.2) for an integer capacity >= 0           (line 122)
CeilFifth(capacity) == (capacity + 4) \div 5

\* the classification of the nearest row                          (lines 120-123)
CapacityStatusNoCeil(capacity, filled) ==
    LET free == capacity - filled
    IN IF free <= 0 THEN "FULL"
       ELSE IF free < capacity \div 5 THEN "NEARLY_FULL"
       ELSE "AVAILABLE"
CapacityStatus(capacity, filled) ==
    LET free == capacity - filled
    IN IF free <= 0 THEN "FULL"
       ELSE IF free < CeilFifth(capacity) THEN "NEARLY_FULL"
       ELSE "AVAILABLE"

\* minD.toFixed(2): the digits of the distance in 1/100 km, or the text "Infinity"   (line 126)
ToFixed2(d) ==
    IF d = Infinity
    THEN [infinity |-> TRUE, hundredths |-> 0]
    ELSE [infinity |-> FALSE, hundredths |-> (d + 500) \div 1000]

\* `ACK|SAFEBASE=${nearest ? nearest.id : 'NONE'}|DIST=${distKm}KM|CAPACITY=${capacityStatus}`
\* kept as its three fields                                       (lines 118-127)
Ack(bs, lat, lon) ==
    LET n == Nearest(bs, lat, lon)
    IN [safeBase |-> IF n.nearest # 0 THEN bs[n.nearest].id ELSE "NONE",
        dist     |-> ToFixed2(n.minD),
        capacity |-> IF n.nearest # 0
                     THEN CapacityStatus(bs[n.nearest].capacity, bs[n.nearest].filled)
                     ELSE "AVAILABLE"]

\* ---- the Government Backend: the raw payload ----------------------------

\* A raw payload is a sequence of lexical atoms: the delimiters "|" and "=" and pieces of
\* text that contain neither.  A request body is [has |-> raw present, raw |-> its text].
RawAtSholi ==
    <<"SOS", "|", "ID", "=", "HX1", "|", "LAT", "=", "12.8296", "|", "LON", "=", "80.2270", "|",
      "DIR", "=", "NE", "|", "TYPE", "=", "TSUNAMI", "|", "TIME", "=", "2024-01-01T00:00:00.000Z">>
RawBare == <<"SOS">>
IngestInputs ==
    {[has |-> FALSE, raw |-> <<>>]} \cup
    {[has |-> TRUE, raw |-> r] : r \in {RawAtSholi, RawBare}}

\* if (!raw)                                                         (line 83)
NoRawNever(body) == FALSE
NoRaw(body) == ~body.has \/ body.raw = <<>>

\* String.prototype.split(sep) for a one-atom separator        (lines 89, 93)
RECURSIVE Split(_, _)
Split(s, sep) ==
    IF \E k \in 1..Len(s) : s[k] = sep
    THEN LET k == CHOOSE k \in 1..Len(s) : s[k] = sep /\ \A j \in 1..(k - 1) : s[j] # sep
         IN <<SubSeq(s, 1, k - 1)>> \o Split(SubSeq(s, k + 1, Len(s)), sep)
    ELSE <<s>>

\* p.includes('=')                                                   (line 92)
Includes(p, c) == \E k \in 1..Len(p) : p[k] = c

\* payload[key] after the loop of lines 91-98: the v of the last token whose k is key
Lookup(parts, key) ==
    LET hits == {i \in 1..Len(parts) : Includes(parts[i], "=") /\ Split(parts[i], "=")[1] = key}
    IN IF hits = {}
       THEN [found |-> FALSE, v |-> <<>>]
       ELSE LET i == CHOOSE i \in hits : \A j \in hits : j <= i
            IN [found |-> TRUE, v |-> Split(parts[i], "=")[2]]

\* x || dflt for a text x                                     (lines 100, 103, 104)
\* without the || the field is whatever payload holds, the empty text when it holds nothing
OrTextNoDefault(x, dflt) == x.v
OrText(x, dflt) == IF x.found /\ x.v # <<>> THEN x.v ELSE dflt

\* parseFloat(x) || 0 in 1/10000 of a degree                    (lines 101-102)
NumberOf(atom) ==
    CASE atom = "12.8296" -> 128296
      [] atom = "80.2270" -> 802270
      [] atom = "13.0520" -> 130520
      [] atom = "80.2043" -> 802043
      [] atom = "12.8721" -> 128721
      [] atom = "80.2254" -> 802254
      [] OTHER -> 0
Numeric == {"12.8296", "80.2270", "13.0520", "80.2043", "12.8721", "80.2254"}
ParseFloatOr0(x) ==
    IF x.found /\ x.v # <<>> /\ x.v[1] \in Numeric THEN NumberOf(x.v[1]) ELSE 0

\* the fields of lines 100-104; an absent TIME is the time of the request
Now == <<"now">>
\* a parse that stamps every event with the time of the request, whatever TIME says
ParseTimeNow(raw) ==
    LET parts == Split(raw, "|")
    IN [deviceId |-> OrText(Lookup(parts, <<"ID">>), <<"UNKNOWN">>),
        lat      |-> ParseFloatOr0(Lookup(parts, <<"LAT">>)),
        lon      |-> ParseFloatOr0(Lookup(parts, <<"LON">>)),
        type     |-> OrText(Lookup(parts, <<"TYPE">>), <<"UNKNOWN">>),
        time     |-> Now]
Parse(raw) ==
    LET parts == Split(raw, "|")
    IN [deviceId |-> OrText(Lookup(parts, <<"ID">>), <<"UNKNOWN">>),
        lat      |-> ParseFloatOr0(Lookup(parts, <<"LAT">>)),
        lon      |-> ParseFloatOr0(Lookup(parts, <<"LON">>)),
        type     |-> OrText(Lookup(parts, <<"TYPE">>), <<"UNKNOWN">>),
        time     |-> OrText(Lookup(parts, <<"TIME">>), Now)]

NotParsed == [deviceId |-> <<>>, lat |-> 0, lon |-> 0, type |-> <<>>, time |-> <<>>]
NoAckYet == [safeBase |-> "", dist |-> [infinity |-> FALSE, hundredths |-> 0], capacity |-> ""]

\* ---- usePeerCompass: data ---------------------------------------------------

\* null, and the remotePeerData of useState<PeerData | null>(null)        (line 69)
Null == "null"
NoPeerData == [deviceId |-> Null, heading |-> 0, timestamp |-> 0]

\* ---- initial state ------------------------------------------------------

RelayInit ==
    /\ messages = <<>>
    /\ retryQueue = <<>>
    /\ isProcessingQueue = FALSE
    /\ items = <<>>
    /\ reqs = <<>>
    /\ procs = <<>>
    /\ commandOk = TRUE
    /\ failed = <<>>
    /\ delivered = <<>>

\* the backend with its tables as init() leaves them on a fresh database (lines 53-65)
CmdIdle ==
    /\ bases = Preloaded
    /\ smsLogs = <<>>
    /\ sosEvents = <<>>
    /\ ingests = <<>>
    /\ clients = <<>>
    /\ inbox = <<>>

PureIdle ==
    /\ input = <<>>
    /\ output = <<>>

\* the user app before the first press: nothing stored under 'smsQueue'   (part_001 line 73)
AppIdle ==
    /\ smsQueue = <<>>
    /\ sends = <<>>
    /\ ticks = <<>>
    /\ clock = 0
    /\ gateway = <<>>
    /\ answered = {}

\* usePeerCompass after its first render: the useState initial values (lines 64-70) and the
\* handler registered by the effect of lines 196-221, which runs once (dependency list [])
PeerIdle ==
    /\ targetDeviceId = Null
    /\ handlerTarget = Null
    /\ remotePeerData = NoPeerData
    /\ status = "idle"

Init == RelayInit /\ CmdIdle /\ PureIdle /\ AppIdle /\ PeerIdle

\* ---- the Command service as seen from the Relay ---------------------------

\* http://localhost:6060/sos stops answering 2xx (down, timing out, or failing)
CommandFails ==
    /\ UNCHANGED <<cmdVars, pureVars, appVars, peerVars>>
    /\ commandOk
    /\ commandOk' = FALSE
    /\ UNCHANGED <<messages, retryQueue, isProcessingQueue, items, reqs, procs,
                   failed, delivered>>

\* http://localhost:6060/sos answers 2xx again
CommandRecovers ==
    /\ UNCHANGED <<cmdVars, pureVars, appVars, peerVars>>
    /\ ~commandOk
    /\ commandOk' = TRUE
    /\ UNCHANGED <<messages, retryQueue, isProcessingQueue, items, reqs, procs,
                   failed, delivered>>

\* ---- app.post('/sms-receiver')  (lines 115-142) ---------------------------

\* lines 117-118: missing payload, 400
SubmitReject(p) ==
    /\ UNCHANGED <<cmdVars, pureVars, appVars, peerVars>>
    /\ Len(reqs) < MaxSubmits
    /\ Falsy(p)
    /\ reqs' = Append(reqs, [pc |-> "done", payload |-> p, rec |-> 0,
                             status |-> 400, body |-> "missing payload"])
    /\ UNCHANGED <<messages, retryQueue, isProcessingQueue, items, procs,
                   commandOk, failed, delivered>>

\* lines 117-126: record created and pushed, forward started, handler suspended
SubmitAccept(p) ==
    /\ UNCHANGED <<cmdVars, pureVars, appVars, peerVars>>
    /\ Len(reqs) < MaxSubmits
    /\ ~Falsy(p)
    /\ messages' = Append(messages, NewRecord(messages, p))
    /\ failed' = Append(failed, 0)
    /\ delivered' = Append(delivered, NotDelivered)
    /\ reqs' = Append(reqs, [pc |-> "forwarding", payload |-> p, rec |-> Len(messages) + 1,
                             status |-> 0, body |-> ""])
    /\ UNCHANGED <<retryQueue, isProcessingQueue, items, procs, commandOk>>

\* lines 126-130: the forward returned 2xx
SubmitForwardOk(r, a) ==
    /\ UNCHANGED <<cmdVars, pureVars, appVars, peerVars>>
    /\ r \in 1..Len(reqs)
    /\ reqs[r].pc = "forwarding"
    /\ commandOk
    /\ LET rec == reqs[r].rec
           ack == AckOf(a)
       IN /\ messages' = [messages EXCEPT ![rec].status = "forwarded", ![rec].ack = ack]
          /\ reqs' = [reqs EXCEPT ![r].pc = "done", ![r].status = 200, ![r].body = ack]
          /\ delivered' = [delivered EXCEPT ![rec] = a]
    /\ UNCHANGED <<retryQueue, isProcessingQueue, items, procs, commandOk, failed>>

\* lines 131-136: the forward threw; queue the record, call processQueue(), answer 202.
\* processQueue() runs synchronously up to its first await (lines 146-152).
SubmitForwardFail(r, e) ==
    /\ UNCHANGED <<cmdVars, pureVars, appVars, peerVars>>
    /\ r \in 1..Len(reqs)
    /\ reqs[r].pc = "forwarding"
    /\ ~commandOk
    /\ LET rec  == reqs[r].rec
           ref  == Len(items) + 1
           heap == Append(items, NewItem(messages[rec].id, reqs[r].payload, e))
           q    == Push(retryQueue, ref)
       IN /\ messages' = [messages EXCEPT ![rec].status = QueuedStatus]
          /\ items' = heap
          /\ retryQueue' = q
          /\ IF Guarded(isProcessingQueue)
             THEN UNCHANGED <<isProcessingQueue, procs>>
             ELSE /\ isProcessingQueue' = FlagAfterLoopHead(q)
                  /\ procs' = Append(procs, LoopHead(q, heap))
          /\ reqs' = [reqs EXCEPT ![r].pc = "done", ![r].status = 202, ![r].body = "queued"]
          /\ failed' = [failed EXCEPT ![rec] = Counted(@)]
    /\ UNCHANGED <<commandOk, delivered>>

\* ---- processQueue  (lines 145-167) ----------------------------------------

\* lines 152-156, then the loop test: the forward of item returned 2xx
ProcForwardOk(p, a) ==
    /\ UNCHANGED <<cmdVars, pureVars, appVars, peerVars>>
    /\ p \in 1..Len(procs)
    /\ procs[p].pc = "forwarding"
    /\ commandOk
    /\ LET item == procs[p].item
           msg  == Find(messages, items[item].id)
           ack  == AckOf(a)
           q    == Shift(retryQueue)
           ps   == [procs EXCEPT ![p] = LoopHead(q, items)]
       IN /\ messages' = IF msg # 0
                         THEN [messages EXCEPT ![msg].status = "forwarded", ![msg].ack = ack]
                         ELSE messages
          /\ retryQueue' = q
          /\ procs' = ps
          /\ isProcessingQueue' = FlagAfterLoopHead(q)
          /\ items' = Collect(items, q, ps)
          /\ delivered' = IF msg # 0 THEN [delivered EXCEPT ![msg] = a] ELSE delivered
    /\ UNCHANGED <<reqs, commandOk, failed>>

\* a processor that drops the head after its third failed retry
ProcForwardFailGiveUp(p, e) ==
    /\ UNCHANGED <<cmdVars, pureVars, appVars, peerVars>>
    /\ p \in 1..Len(procs)
    /\ procs[p].pc = "forwarding"
    /\ ~commandOk
    /\ LET item == procs[p].item
           n    == NextAttempts(items[item].attempts)
           msg  == Find(messages, items[item].id)
           q    == IF n >= 3 THEN Shift(retryQueue) ELSE retryQueue
       IN /\ n <= MaxAttempts
          /\ items' = [items EXCEPT ![item].attempts = n, ![item].lastError = e]
          /\ retryQueue' = q
          /\ procs' = [procs EXCEPT ![p].pc = "backoff", ![p].delay = Backoff(n)]
          /\ failed' = IF msg # 0 THEN [failed EXCEPT ![msg] = Counted(@)] ELSE failed
    /\ UNCHANGED <<messages, isProcessingQueue, reqs, commandOk, delivered>>

\* lines 157-162: the forward of item threw; count it and start the backoff timer
ProcForwardFail(p, e) ==
    /\ UNCHANGED <<cmdVars, pureVars, appVars, peerVars>>
    /\ p \in 1..Len(procs)
    /\ procs[p].pc = "forwarding"
    /\ ~commandOk
    /\ LET item == procs[p].item
           n    == NextAttempts(items[item].attempts)
           msg  == Find(messages, items[item].id)
       IN /\ n <= MaxAttempts
          /\ items' = [items EXCEPT ![item].attempts = n, ![item].lastError = e]
          /\ procs' = [procs EXCEPT ![p].pc = "backoff", ![p].delay = Backoff(n)]
          /\ failed' = IF msg # 0 THEN [failed EXCEPT ![msg] = Counted(@)] ELSE failed
    /\ UNCHANGED <<messages, retryQueue, isProcessingQueue, reqs, commandOk, delivered>>

\* a processor that returns after its backoff without testing the queue again
ProcWakeQuits(p) ==
    /\ UNCHANGED <<cmdVars, pureVars, appVars, peerVars>>
    /\ p \in 1..Len(procs)
    /\ procs[p].pc = "backoff"
    /\ procs' = [procs EXCEPT ![p] = LoopHead(<<>>, items)]
    /\ isProcessingQueue' = FALSE
    /\ UNCHANGED <<messages, retryQueue, items, reqs, commandOk, failed, delivered>>

\* line 162 resolved, then the loop test (lines 149-152, 166)
ProcWake(p) ==
    /\ UNCHANGED <<cmdVars, pureVars, appVars, peerVars>>
    /\ p \in 1..Len(procs)
    /\ procs[p].pc = "backoff"
    /\ procs' = [procs EXCEPT ![p] = LoopHead(retryQueue, items)]
    /\ isProcessingQueue' = FlagAfterLoopHead(retryQueue)
    /\ UNCHANGED <<messages, retryQueue, items, reqs, commandOk, failed, delivered>>

\* ---- specification ------------------------------------------------------

Next ==
    \/ CommandFails
    \/ CommandRecovers
    \/ \E p \in SubmitInputs : SubmitReject(p)
    \/ \E p \in SubmitInputs : SubmitAccept(p)
    \/ \E r \in 1..MaxSubmits, a \in AckData : SubmitForwardOk(r, a)
    \/ \E r \in 1..MaxSubmits, e \in Errors : SubmitForwardFail(r, e)
    \/ \E p \in 1..MaxSubmits, a \in AckData : ProcForwardOk(p, a)
    \/ \E p \in 1..MaxSubmits, e \in Errors : ProcForwardFail(p, e)
    \/ \E p \in 1..MaxSubmits : ProcWake(p)

Spec == Init /\ [][Next]_vars

\* ---- app.post('/sos')  (government-backend/index.js lines 80-142) ---------

\* lines 82-83: raw missing, 400
IngestReject(body) ==
    /\ UNCHANGED <<relayVars, pureVars, appVars, peerVars>>
    /\ Len(ingests) < MaxIngests
    /\ NoRaw(body)
    /\ ingests' = Append(ingests, [pc |-> "done", body |-> body, parsed |-> NotParsed,
                                   status |-> 400, ack |-> NoAckYet])
    /\ UNCHANGED <<bases, smsLogs, sosEvents, clients, inbox>>

\* lines 82-86: the INSERT INTO sms_logs is issued, the handler waits for it
IngestAccept(body) ==
    /\ UNCHANGED <<relayVars, pureVars, appVars, peerVars>>
    /\ Len(ingests) < MaxIngests
    /\ ~NoRaw(body)
    /\ ingests' = Append(ingests, [pc |-> "logging", body |-> body, parsed |-> NotParsed,
                                   status |-> 0, ack |-> NoAckYet])
    /\ UNCHANGED <<bases, smsLogs, sosEvents, clients, inbox>>

\* a handler that parses and stores without having written sms_logs
IngestLoggedNothing(i) ==
    /\ UNCHANGED <<relayVars, pureVars, appVars, peerVars>>
    /\ i \in 1..Len(ingests)
    /\ ingests[i].pc = "logging"
    /\ ingests' = [ingests EXCEPT ![i].pc = "storing", ![i].parsed = Parse(ingests[i].body.raw)]
    /\ UNCHANGED <<bases, smsLogs, sosEvents, clients, inbox>>

\* line 86 resolved; lines 89-107: parse, then the INSERT INTO sos_events is issued
IngestLogged(i) ==
    /\ UNCHANGED <<relayVars, pureVars, appVars, peerVars>>
    /\ i \in 1..Len(ingests)
    /\ ingests[i].pc = "logging"
    /\ smsLogs' = Append(smsLogs, [raw |-> ingests[i].body.raw, by |-> i])
    /\ ingests' = [ingests EXCEPT ![i].pc = "storing", ![i].parsed = Parse(ingests[i].body.raw)]
    /\ UNCHANGED <<bases, sosEvents, clients, inbox>>

\* line 86 rejected; lines 138-140: 500
IngestLogFailed(i) ==
    /\ UNCHANGED <<relayVars, pureVars, appVars, peerVars>>
    /\ i \in 1..Len(ingests)
    /\ ingests[i].pc = "logging"
    /\ ingests' = [ingests EXCEPT ![i].pc = "done", ![i].status = 500]
    /\ UNCHANGED <<bases, smsLogs, sosEvents, clients, inbox>>

\* line 107 resolved; line 110: the SELECT of safe_bases is issued
IngestStored(i) ==
    /\ UNCHANGED <<relayVars, pureVars, appVars, peerVars>>
    /\ i \in 1..Len(ingests)
    /\ ingests[i].pc = "storing"
    /\ sosEvents' = Append(sosEvents, [deviceId |-> ingests[i].parsed.deviceId,
                                       lat |-> ingests[i].parsed.lat,
                                       lon |-> ingests[i].parsed.lon,
                                       type |-> ingests[i].parsed.type,
                                       time |-> ingests[i].parsed.time,
                                       status |-> "received", by |-> i])
    /\ ingests' = [ingests EXCEPT ![i].pc = "reading"]
    /\ UNCHANGED <<bases, smsLogs, clients, inbox>>

\* line 107 rejected; lines 138-140: 500
IngestStoreFailed(i) ==
    /\ UNCHANGED <<relayVars, pureVars, appVars, peerVars>>
    /\ i \in 1..Len(ingests)
    /\ ingests[i].pc = "storing"
    /\ ingests' = [ingests EXCEPT ![i].pc = "done", ![i].status = 500]
    /\ UNCHANGED <<bases, smsLogs, sosEvents, clients, inbox>>

\* the frame of line 130; by is the request that sent it
Frame(i, parsed, ack) ==
    [type |-> "sos", deviceId |-> parsed.deviceId, lat |-> parsed.lat, lon |-> parsed.lon,
     emergency |-> parsed.type, time |-> parsed.time, ack |-> ack, by |-> i]

\* wss.clients.forEach: if (client.readyState === WebSocket.OPEN) client.send(...)   (lines 131-135)
BroadcastAll(cs, boxes, frame) ==
    [c \in 1..Len(boxes) |-> Append(boxes[c], frame)]
Broadcast(cs, boxes, frame) ==
    [c \in 1..Len(boxes) |-> IF cs[c] = "OPEN" THEN Append(boxes[c], frame) ELSE boxes[c]]

\* line 110 resolved; lines 111-137: nearest base, ack, broadcast, 200
IngestResolved(i) ==
    /\ UNCHANGED <<relayVars, pureVars, appVars, peerVars>>
    /\ i \in 1..Len(ingests)
    /\ ingests[i].pc = "reading"
    /\ LET ack == Ack(bases, ingests[i].parsed.lat, ingests[i].parsed.lon)
       IN /\ inbox' = Broadcast(clients, inbox, Frame(i, ingests[i].parsed, ack))
          /\ ingests' = [ingests EXCEPT ![i].pc = "done", ![i].status = 200, ![i].ack = ack]
    /\ UNCHANGED <<bases, smsLogs, sosEvents, clients>>

\* a handler that takes back its sos_events row when the SELECT failed
IngestReadFailedRollsBack(i) ==
    /\ UNCHANGED <<relayVars, pureVars, appVars, peerVars>>
    /\ i \in 1..Len(ingests)
    /\ ingests[i].pc = "reading"
    /\ ingests' = [ingests EXCEPT ![i].pc = "done", ![i].status = 500]
    /\ sosEvents' = SelectSeq(sosEvents, LAMBDA e : e.by # i)
    /\ UNCHANGED <<bases, smsLogs, clients, inbox>>

\* line 110 rejected; lines 138-140: 500
IngestReadFailed(i) ==
    /\ UNCHANGED <<relayVars, pureVars, appVars, peerVars>>
    /\ i \in 1..Len(ingests)
    /\ ingests[i].pc = "reading"
    /\ ingests' = [ingests EXCEPT ![i].pc = "done", ![i].status = 500]
    /\ UNCHANGED <<bases, smsLogs, sosEvents, clients, inbox>>

\* a monitor opens a WebSocket to the server of line 17
ClientConnect ==
    /\ UNCHANGED <<relayVars, pureVars, appVars, peerVars>>
    /\ Len(clients) < MaxClients
    /\ clients' = Append(clients, "OPEN")
    /\ inbox' = Append(inbox, <<>>)
    /\ UNCHANGED <<bases, smsLogs, sosEvents, ingests>>

\* a monitor closes its WebSocket
ClientClose(c) ==
    /\ UNCHANGED <<relayVars, pureVars, appVars, peerVars>>
    /\ c \in 1..Len(clients)
    /\ clients[c] = "OPEN"
    /\ clients' = [clients EXCEPT ![c] = "CLOSED"]
    /\ UNCHANGED <<bases, smsLogs, sosEvents, ingests, inbox>>

CmdNext ==
    \/ \E body \in IngestInputs : IngestReject(body)
    \/ \E body \in IngestInputs : IngestAccept(body)
    \/ \E i \in 1..MaxIngests : IngestLogged(i)
    \/ \E i \in 1..MaxIngests : IngestLogFailed(i)
    \/ \E i \in 1..MaxIngests : IngestStored(i)
    \/ \E i \in 1..MaxIngests : IngestStoreFailed(i)
    \/ \E i \in 1..MaxIngests : IngestResolved(i)
    \/ \E i \in 1..MaxIngests : IngestReadFailed(i)
    \/ ClientConnect
    \/ \E c \in 1..MaxClients : ClientClose(c)

CmdSpec == Init /\ [][CmdNext]_vars

\* ---- the resolution and the classification applied on their own ----------

BaseUniverse == {BaseSholi, BaseSathya, BaseTwin, BaseExample}
AlertPoints == {PSholi, PSathya, PExample, PZero}

\* the safe_bases tables of up to MaxBases rows with distinct ids
Directories ==
    UNION {{d \in [1..n -> BaseUniverse] : \A j, k \in 1..n : j # k => d[j].id # d[k].id}
           : n \in 0..MaxBases}

NoResult == [done |-> FALSE, ack |-> NoAckYet, nearest |-> 0]

ResolveInit ==
    /\ RelayInit /\ CmdIdle /\ AppIdle /\ PeerIdle
    /\ input \in {[bases |-> d, lat |-> p[1], lon |-> p[2]] : d \in Directories, p \in AlertPoints}
    /\ output = NoResult

\* lines 110-127 on the table and the position of input
Resolve ==
    /\ UNCHANGED <<relayVars, cmdVars, appVars, peerVars>>
    /\ ~output.done
    /\ output' = [done |-> TRUE,
                  ack |-> Ack(input.bases, input.lat, input.lon),
                  nearest |-> Nearest(input.bases, input.lat, input.lon).nearest]
    /\ UNCHANGED input

ResolveNext == Resolve

ResolveSpec == ResolveInit /\ [][ResolveNext]_vars

ClassifyInit ==
    /\ RelayInit /\ CmdIdle /\ AppIdle /\ PeerIdle
    /\ input \in [capacity : 0..MaxCapacity, filled : 0..MaxFilled]
    /\ output = "none"

\* lines 120-123 on the capacity and filled of input
Classify ==
    /\ UNCHANGED <<relayVars, cmdVars, appVars, peerVars>>
    /\ output = "none"
    /\ output' = CapacityStatus(input.capacity, input.filled)
    /\ UNCHANGED input

ClassifyNext == Classify

ClassifySpec == ClassifyInit /\ [][ClassifyNext]_vars

\* ---- the parse of lines 89-104 applied on its own ---------------------------

\* tokens a raw payload may be made of: well-formed fields, fields out of form, bare words
TokenUniverse ==
    {<<"SOS">>, <<"HELP">>, <<>>,
     <<"ID", "=", "HX1">>, <<"ID", "=">>,
     <<"LAT", "=", "12.8296">>, <<"LAT", "=", "abc">>,
     <<"LON", "=", "80.2270">>,
     <<"DIR", "=", "NE">>,
     <<"TYPE", "=", "TSUNAMI">>,
     <<"TIME", "=", "T1">>, <<"TIME", "=", "T1", "=", "Z">>}

\* tokens.join('|')
RECURSIVE Join(_)
Join(ts) ==
    IF Len(ts) = 0 THEN <<>>
    ELSE IF Len(ts) = 1 THEN ts[1]
    ELSE ts[1] \o <<"|">> \o Join(Tail(ts))

\* String(n) of a coordinate, in 1/10000 of a degree               (part_001 line 102)
NumberText(n) ==
    CASE n = 128296 -> "12.8296"
      [] n = 802270 -> "80.2270"
      [] n = 130520 -> "13.0520"
      [] n = 802043 -> "80.2043"
      [] n = 128721 -> "12.8721"
      [] n = 802254 -> "80.2254"
      [] n = 0 -> "0"

\* directionFromHeading(heading)                                 (part_001 lines 3-8)
Dirs == {"N", "NE", "E", "SE", "S", "SW", "W", "NW", "N/A"}

\* the values sendSOS works with: the stored or generated device id, the last location or
\* the default one, the compass direction, the time of the press    (part_001 lines 97-101)
SosValues ==
    {[id |-> i, lat |-> p[1], lon |-> p[2], dir |-> d, type |-> "TSUNAMI", time |-> t] :
        i \in {"HX1", "HX7K2QP"}, p \in {PSholi, PSathya, PZero}, d \in Dirs, t \in {"T1", "T2"}}
NotSent == [id |-> "", lat |-> 0, lon |-> 0, dir |-> "", type |-> "", time |-> ""]

\* `SOS|ID=${id}|LAT=${loc.latitude}|LON=${loc.longitude}|DIR=${dir}|TYPE=TSUNAMI|TIME=${time}`
\*                                                                 (part_001 line 102)
SosPayload(v) ==
    <<"SOS", "|", "ID", "=", v.id, "|", "LAT", "=", NumberText(v.lat), "|",
      "LON", "=", NumberText(v.lon), "|", "DIR", "=", v.dir, "|",
      "TYPE", "=", v.type, "|", "TIME", "=", v.time>>

\* the raw payloads of up to MaxTokens tokens, and the payloads the user app builds
TokenSeqs == UNION {[1..n -> TokenUniverse] : n \in 1..MaxTokens}
ParseInputs ==
    {[raw |-> Join(ts), tokens |-> ts, sent |-> NotSent] : ts \in {t \in TokenSeqs : Join(t) # <<>>}}
    \cup {[raw |-> SosPayload(v), tokens |-> Split(SosPayload(v), "|"), sent |-> v] : v \in SosValues}

KeyNames == {"ID", "LAT", "LON", "DIR", "TYPE", "TIME"}

\* payload.typeFlag after the loop of lines 91-98: the last token without '='
TypeFlag(parts) ==
    LET bare == {i \in 1..Len(parts) : ~Includes(parts[i], "=")}
    IN IF bare = {}
       THEN [found |-> FALSE, v |-> <<>>]
       ELSE [found |-> TRUE, v |-> parts[CHOOSE i \in bare : \A j \in bare : j <= i]]

NotRun == [done |-> FALSE, payload |-> [k \in KeyNames |-> [found |-> FALSE, v |-> <<>>]],
           typeFlag |-> [found |-> FALSE, v |-> <<>>], parsed |-> NotParsed, ack |-> NoAckYet]

ParseInit ==
    /\ RelayInit /\ CmdIdle /\ AppIdle /\ PeerIdle
    /\ input \in ParseInputs
    /\ output = NotRun

\* lines 89-127 on the raw payload of input and the preloaded safe_bases
ParseStep ==
    /\ UNCHANGED <<relayVars, cmdVars, appVars, peerVars>>
    /\ ~output.done
    /\ LET parts == Split(input.raw, "|")
           parsed == Parse(input.raw)
       IN output' = [done |-> TRUE,
                     payload |-> [k \in KeyNames |-> Lookup(parts, <<k>>)],
                     typeFlag |-> TypeFlag(parts),
                     parsed |-> parsed,
                     ack |-> Ack(bases, parsed.lat, parsed.lon)]
    /\ UNCHANGED input

ParseNext == ParseStep

ParseSpec == ParseInit /\ [][ParseNext]_vars

\* ---- the user app: sendSOS and the retry interval (part_001 lines 70-130) ----

\* r.status of a fetch that was answered                     (part_001 lines 80, 106, 109)
Responses == {200, 202, 500}

\* the gateway creates one RelayMessageRecord for every payload it answers 200 or 202
\* (App.jsx lines 121-122, 130, 136); g[n] counts the records made of the payload of press n
Recorded(g, n, st) == IF st \in {200, 202} THEN [g EXCEPT ![n] = @ + 1] ELSE g

\* const item = { id: Date.now(), payload }                  (part_001 lines 115, 123)
\* n is the press that built the payload
LocalItem(now, time, n) == [id |-> now, payload |-> [time |-> time], n |-> n]

\* the item as the program sees it: { id, payload }
ItemValue(item) == [id |-> item.id, payload |-> item.payload]

\* JSON.parse(localStorage.getItem('smsQueue') || '[]').filter(x => x.id !== item.id)   (line 84)
WithoutId(q, id) == SelectSeq(q, LAMBDA x : x.id # id)

\* for (const item of q.slice()): the tick's locals at its next fetch, or after the loop
\* (part_001 lines 75-77, 90); a callback that returned keeps no locals
NextItem(tick) ==
    IF tick.k < Len(tick.q)
    THEN [tick EXCEPT !.pc = "posting", !.k = tick.k + 1]
    ELSE [pc |-> "done", q |-> <<>>, k |-> 0]

\* Date.now() moves on
ClockTick ==
    /\ UNCHANGED <<relayVars, cmdVars, pureVars, peerVars>>
    /\ clock < MaxClock
    /\ clock' = clock + 1
    /\ UNCHANGED <<smsQueue, sends, ticks, gateway, answered>>

\* lines 95-105: the button is enabled (sending is false), the payload is built, the fetch
\* is issued and sendSOS is suspended
Press ==
    /\ UNCHANGED <<relayVars, cmdVars, pureVars, peerVars>>
    /\ Len(sends) < MaxPresses
    /\ \A s \in 1..Len(sends) : sends[s].pc = "done"
    /\ sends' = Append(sends, [pc |-> "posting", time |-> clock, result |-> "", id |-> 0])
    /\ gateway' = Append(gateway, 0)
    /\ UNCHANGED <<smsQueue, ticks, clock, answered>>

\* lines 105-119: the gateway answered; 200 and 202 end the press, any other status queues
\* the payload locally
SendAnswered(s, st) ==
    /\ UNCHANGED <<relayVars, cmdVars, pureVars, peerVars>>
    /\ s \in 1..Len(sends)
    /\ sends[s].pc = "posting"
    /\ gateway' = Recorded(gateway, s, st)
    /\ IF st = 200
       THEN /\ sends' = [sends EXCEPT ![s].pc = "done", ![s].result = "ACK"]
            /\ UNCHANGED smsQueue
       ELSE IF st = 202
       THEN /\ sends' = [sends EXCEPT ![s].pc = "done", ![s].result = "QUEUED"]
            /\ UNCHANGED smsQueue
       ELSE /\ sends' = [sends EXCEPT ![s].pc = "done", ![s].result = "QUEUED_LOCAL",
                                      ![s].id = clock]
            /\ smsQueue' = Append(smsQueue, LocalItem(clock, sends[s].time, s))
    /\ UNCHANGED <<ticks, clock, answered>>

\* lines 120-127: the fetch threw (gateway down): queue the payload locally
SendFailed(s) ==
    /\ UNCHANGED <<relayVars, cmdVars, pureVars, peerVars>>
    /\ s \in 1..Len(sends)
    /\ sends[s].pc = "posting"
    /\ sends' = [sends EXCEPT ![s].pc = "done", ![s].result = "QUEUED_LOCAL", ![s].id = clock]
    /\ smsQueue' = Append(smsQueue, LocalItem(clock, sends[s].time, s))
    /\ UNCHANGED <<ticks, clock, gateway, answered>>

\* lines 72-79: the interval fires; the stored queue is read once, and unless it is empty
\* the fetch of its first item is issued
TickStart ==
    /\ UNCHANGED <<relayVars, cmdVars, pureVars, peerVars>>
    /\ Len(ticks) < MaxTicks
    /\ ticks' = Append(ticks, IF smsQueue = <<>>
                              THEN [pc |-> "done", q |-> <<>>, k |-> 0]
                              ELSE [pc |-> "posting", q |-> smsQueue, k |-> 1])
    /\ UNCHANGED <<smsQueue, sends, clock, gateway, answered>>

\* lines 77-81, 86, 90: the gateway answered the fetch of item k; on 200 the tick waits for
\* r.json(), on any other status it goes on to the next item
TickAnswered(t, st) ==
    /\ UNCHANGED <<relayVars, cmdVars, pureVars, peerVars>>
    /\ t \in 1..Len(ticks)
    /\ ticks[t].pc = "posting"
    /\ gateway' = Recorded(gateway, ticks[t].q[ticks[t].k].n, st)
    /\ IF st = 200
       THEN /\ ticks' = [ticks EXCEPT ![t].pc = "reading"]
            /\ answered' = answered \cup {ItemValue(ticks[t].q[ticks[t].k])}
       ELSE /\ ticks' = [ticks EXCEPT ![t] = NextItem(ticks[t])]
            /\ UNCHANGED answered
    /\ UNCHANGED <<smsQueue, sends, clock>>

\* lines 87-90: the fetch threw; the item stays, the tick goes on to the next item
TickFailed(t) ==
    /\ UNCHANGED <<relayVars, cmdVars, pureVars, peerVars>>
    /\ t \in 1..Len(ticks)
    /\ ticks[t].pc = "posting"
    /\ ticks' = [ticks EXCEPT ![t] = NextItem(ticks[t])]
    /\ UNCHANGED <<smsQueue, sends, clock, gateway, answered>>

\* lines 81-85, 90: r.json() resolved; the stored queue is read again, written back without
\* the items that have the id of item k, and the tick goes on to the next item
TickRemoves(t) ==
    /\ UNCHANGED <<relayVars, cmdVars, pureVars, peerVars>>
    /\ t \in 1..Len(ticks)
    /\ ticks[t].pc = "reading"
    /\ smsQueue' = WithoutId(smsQueue, ticks[t].q[ticks[t].k].id)
    /\ ticks' = [ticks EXCEPT ![t] = NextItem(ticks[t])]
    /\ UNCHANGED <<sends, clock, gateway, answered>>

AppNext ==
    \/ ClockTick
    \/ Press
    \/ \E s \in 1..MaxPresses, st \in Responses : SendAnswered(s, st)
    \/ \E s \in 1..MaxPresses : SendFailed(s)
    \/ TickStart
    \/ \E t \in 1..MaxTicks, st \in Responses : TickAnswered(t, st)
    \/ \E t \in 1..MaxTicks : TickFailed(t)
    \/ \E t \in 1..MaxTicks : TickRemoves(t)

AppSpec == Init /\ [][AppNext]_vars

\* ---- usePeerCompass (src/lib/peer-compass/use-peer-compass.ts) --------------
\* The hook's state that the selection of a target touches.  A PeerData is kept as its
\* deviceId, heading and timestamp; latitude and longitude are copied like the heading.
\* The subscription of lines 334-344 returns at once (peerRef.current is null when the
\* effect runs), so handleIncomingData is the only writer of incoming data.

MaxStamp == 3
DeviceIds == {"A", "B"}
Headings == {0, 90, 180, 270}

\* data.deviceId may be missing (undefined) in a message
PeerDeviceData ==
    [deviceId : DeviceIds \cup {Null}, heading : Headings, timestamp : 1..MaxStamp]

\* lines 199-205: deviceId: data.deviceId ?? 'remote-peer'
ToPeerData(data) ==
    [deviceId  |-> IF data.deviceId = Null THEN "remote-peer" ELSE data.deviceId,
     heading   |-> data.heading,
     timestamp |-> data.timestamp]

\* line 207: targetDeviceId && peerData.deviceId !== targetDeviceId, with the
\* targetDeviceId the handler's closure holds
Rejected(target, peerData) == target # Null /\ peerData.deviceId # target

\* lines 197-212: the WebSocket client calls the registered handler with a message
HandleIncomingData(data) ==
    /\ UNCHANGED <<relayVars, cmdVars, pureVars, appVars>>
    /\ IF Rejected(handlerTarget, ToPeerData(data))
       THEN UNCHANGED <<remotePeerData, status>>
       ELSE /\ remotePeerData' = ToPeerData(data)
            /\ status' = "connected"
    /\ UNCHANGED <<targetDeviceId, handlerTarget>>

\* lines 390-394: setTargetDevice(id); the effect of lines 196-221 has no dependencies, so
\* the registered handler is not replaced
SetTargetDevice(id) ==
    /\ UNCHANGED <<relayVars, cmdVars, pureVars, appVars>>
    /\ targetDeviceId' = id
    /\ remotePeerData' = IF id = Null THEN NoPeerData ELSE remotePeerData
    /\ UNCHANGED <<handlerTarget, status>>

\* lines 380-388: disconnect()
Disconnect ==
    /\ UNCHANGED <<relayVars, cmdVars, pureVars, appVars>>
    /\ remotePeerData' = NoPeerData
    /\ targetDeviceId' = Null
    /\ UNCHANGED <<handlerTarget, status>>

PeerNext ==
    \/ \E data \in PeerDeviceData : HandleIncomingData(data)
    \/ \E id \in DeviceIds \cup {Null} : SetTargetDevice(id)
    \/ Disconnect

PeerSpec == Init /\ [][PeerNext]_vars

\* ---- the Relay and the Command service together ---------------------------
\* The forwards of App.jsx (lines 126 and 154) are the requests of the backend's
\* app.post('/sos').  A forward is named by the record it carries and by its number:
\* 0 for the forward of the submit handler, k for the k-th try of processQueue.

MaxPipeSubmits == 1
MaxPipeRetries == 1

\* the text of a Relay payload as the atoms the backend splits it into
RawOf(p) ==
    CASE p = "SOS|ID=HX1" -> <<"SOS", "|", "ID", "=", "HX1">>
      [] p = "SOS|ID=HX2" -> <<"SOS", "|", "ID", "=", "HX2">>

DigitText(d) ==
    CASE d = 0 -> "0" [] d = 1 -> "1" [] d = 2 -> "2" [] d = 3 -> "3" [] d = 4 -> "4"
      [] d = 5 -> "5" [] d = 6 -> "6" [] d = 7 -> "7" [] d = 8 -> "8" [] d = 9 -> "9"

RECURSIVE NatText(_)
NatText(n) == IF n < 10 THEN DigitText(n) ELSE NatText(n \div 10) \o DigitText(n % 10)

\* minD.toFixed(2) as text                                 (index.js line 126)
FixedText(dist) ==
    IF dist.infinity THEN "Infinity"
    ELSE NatText(dist.hundredths \div 100) \o "." \o
         DigitText((dist.hundredths \div 10) % 10) \o DigitText(dist.hundredths % 10)

\* the ack string of index.js line 127, which res.json({ ack }) returns (line 137)
AckText(ack) ==
    "ACK|SAFEBASE=" \o ack.safeBase \o "|DIST=" \o FixedText(ack.dist) \o
    "KM|CAPACITY=" \o ack.capacity

\* axios.post('http://localhost:6060/sos', { raw: payload }, { timeout: 5000 })
\*                                                          (App.jsx lines 126, 154)
SubmitForward(r) == [rec |-> messages[reqs[r].rec].id, n |-> 0]
ProcForward(p) == [rec |-> items[procs[p].item].id, n |-> items[procs[p].item].attempts + 1]
ForwardBody(payload, f) == [has |-> TRUE, raw |-> RawOf(payload), via |-> f]

\* the backend's requests that forward f became (none or one)
IngestsOf(f) == {i \in 1..Len(ingests) : ingests[i].body.via = f}

\* the backend answered forward f with res.json({ ack }), status 200   (index.js line 137)
RepliedAnything(f, i) == i \in 1..Len(ingests)
Replied(f, i) ==
    /\ i \in IngestsOf(f)
    /\ ingests[i].pc = "done"
    /\ ingests[i].status = 200

\* the backend answered forward f with status 500                (index.js lines 138-140)
Refused(f) == \E i \in IngestsOf(f) : ingests[i].pc = "done" /\ ingests[i].status = 500

\* what makes axios throw: the 5 s timeout at any time, a 500 once the backend sent it
Thrown(f, e) == e = "Request failed with status code 500" => Refused(f)

\* both servers started, one monitor connected to the backend's WebSocket server
PipeInit ==
    /\ RelayInit /\ PureIdle /\ AppIdle /\ PeerIdle
    /\ bases = Preloaded
    /\ smsLogs = <<>>
    /\ sosEvents = <<>>
    /\ ingests = <<>>
    /\ clients = <<"OPEN">>
    /\ inbox = << <<>> >>

\* the sender posts a payload once the Relay has settled the one before
PipeSubmit(p) ==
    /\ Len(reqs) < MaxPipeSubmits
    /\ \A r \in 1..Len(reqs) : reqs[r].pc = "done"
    /\ retryQueue = <<>>
    /\ SubmitAccept(p)

\* the forward of a submit handler reaches the backend
PipeSubmitArrives(r) ==
    /\ r \in 1..Len(reqs)
    /\ reqs[r].pc = "forwarding"
    /\ IngestsOf(SubmitForward(r)) = {}
    /\ IngestAccept(ForwardBody(reqs[r].payload, SubmitForward(r)))

\* the forward of processQueue reaches the backend
PipeProcArrives(p) ==
    /\ p \in 1..Len(procs)
    /\ procs[p].pc = "forwarding"
    /\ IngestsOf(ProcForward(p)) = {}
    /\ IngestAccept(ForwardBody(procs[p].sending, ProcForward(p)))

PipeSubmitOk(r, i) ==
    /\ r \in 1..Len(reqs)
    /\ reqs[r].pc = "forwarding"
    /\ Replied(SubmitForward(r), i)
    /\ SubmitForwardOk(r, AckText(ingests[i].ack))

PipeSubmitFail(r, e) ==
    /\ r \in 1..Len(reqs)
    /\ reqs[r].pc = "forwarding"
    /\ Thrown(SubmitForward(r), e)
    /\ SubmitForwardFail(r, e)

PipeProcOk(p, i) ==
    /\ p \in 1..Len(procs)
    /\ procs[p].pc = "forwarding"
    /\ Replied(ProcForward(p), i)
    /\ ProcForwardOk(p, AckText(ingests[i].ack))

PipeProcFail(p, e) ==
    /\ p \in 1..Len(procs)
    /\ procs[p].pc = "forwarding"
    /\ items[procs[p].item].attempts < MaxPipeRetries
    /\ Thrown(ProcForward(p), e)
    /\ ProcForwardFail(p, e)

PipeNext ==
    \/ CommandFails
    \/ CommandRecovers
    \/ \E p \in Payloads : PipeSubmit(p)
    \/ \E r \in 1..MaxPipeSubmits : PipeSubmitArrives(r)
    \/ \E r \in 1..MaxPipeSubmits, i \in 1..MaxIngests : PipeSubmitOk(r, i)
    \/ \E r \in 1..MaxPipeSubmits, e \in Errors : PipeSubmitFail(r, e)
    \/ \E p \in 1..MaxPipeSubmits : PipeProcArrives(p)
    \/ \E p \in 1..MaxPipeSubmits, i \in 1..MaxIngests : PipeProcOk(p, i)
    \/ \E p \in 1..MaxPipeSubmits, e \in Errors : PipeProcFail(p, e)
    \/ \E p \in 1..MaxPipeSubmits : ProcWake(p)
    \/ \E i \in 1..MaxIngests : IngestLogged(i)
    \/ \E i \in 1..MaxIngests : IngestLogFailed(i)
    \/ \E i \in 1..MaxIngests : IngestStored(i)
    \/ \E i \in 1..MaxIngests : IngestStoreFailed(i)
    \/ \E i \in 1..MaxIngests : IngestResolved(i)
    \/ \E i \in 1..MaxIngests : IngestReadFailed(i)

PipeSpec == PipeInit /\ [][PipeNext]_vars

\* the request timeout (line 126/152) and the backoff timer (line 162) always expire, so a
\* forward in flight completes and a sleeping processor wakes up
LiveSpec ==
    /\ Spec
    /\ WF_vars(\E p \in 1..MaxSubmits : ProcWake(p))
    /\ WF_vars(\E p \in 1..MaxSubmits :
                  \/ \E a \in AckData : ProcForwardOk(p, a)
                  \/ \E e \in Errors : ProcForwardFail(p, e))
    /\ WF_vars(\E r \in 1..MaxSubmits :
                  \/ \E a \in AckData : SubmitForwardOk(r, a)
                  \/ \E e \in Errors : SubmitForwardFail(r, e))

\* ---- vocabulary of the properties ---------------------------------------

Statuses == {"received", "queued", "forwarded"}
Recs == 1..Len(messages)
Reqs == 1..Len(reqs)
Procs == 1..Len(procs)
Active == {p \in Procs : procs[p].pc \in {"forwarding", "backoff"}}
ProcForwards == {p \in Procs : procs[p].pc = "forwarding"}
SubmitForwards == {r \in Reqs : reqs[r].pc = "forwarding"}
QueueRefs == {retryQueue[k] : k \in 1..Len(retryQueue)}

\* request r's immediate forward completes in this step
SubmitCompletes(r) == reqs[r].pc = "forwarding" /\ reqs'[r].pc = "done"
\* processor p's forward completes in this step
ProcCompletes(p) == procs[p].pc = "forwarding" /\ procs'[p] # procs[p]

\* ---- C1 -------------------------------------------------------------------
\* C1: a record's status only moves received -> forwarded (its own immediate forward got a
\* 2xx) or received -> queued (its immediate forward failed) -> forwarded (a processor
\* forward carrying its payload got a 2xx); forwarded is never left, queued is left only
\* that way, records are created as received and no other status value ever appears.
C1_StatusStep(i) ==
    LET s == messages[i].status
        t == messages'[i].status
    IN \/ s = t
       \/ /\ s = "received" /\ t = "forwarded" /\ commandOk
          /\ \E r \in Reqs : reqs[r].rec = i /\ SubmitCompletes(r)
       \/ /\ s = "received" /\ t = "queued" /\ ~commandOk
          /\ \E r \in Reqs : reqs[r].rec = i /\ SubmitCompletes(r)
       \/ /\ s = "queued" /\ t = "forwarded" /\ commandOk
          /\ \E p \in Procs : ProcCompletes(p) /\ procs[p].sending = messages[i].raw

C1_StatusLifecycle ==
    /\ [](\A i \in Recs : messages[i].status \in Statuses)
    /\ [][ /\ Len(messages') >= Len(messages)
           /\ \A i \in Recs : C1_StatusStep(i)
           /\ \A i \in (Len(messages) + 1)..Len(messages') : messages'[i].status = "received"
           /\ \A r \in Reqs : (SubmitCompletes(r) /\ ~commandOk)
                                 => messages'[reqs[r].rec].status = "queued" ]_vars

\* both paths have been taken: one record forwarded through the queue, one directly
C1_Witness ==
    /\ \E i \in Recs : messages[i].status = "forwarded" /\ failed[i] >= 1
    /\ \E i \in Recs : messages[i].status = "forwarded" /\ failed[i] = 0

\* ---- C2 -------------------------------------------------------------------
\* C2: when the immediate forward of a submitted payload fails, the caller gets
\* 202 {queued:true} (never an error), the record becomes queued, exactly one item with
\* attempts = 0 referencing the record is appended at the tail of the retry queue, and
\* the processor is running afterwards.
C2_FailedForwardIsQueued ==
    [][ \A r \in Reqs : (SubmitCompletes(r) /\ ~commandOk) =>
          LET rec == reqs[r].rec
              new == retryQueue'[Len(retryQueue')]
          IN /\ reqs'[r].status = 202 /\ reqs'[r].body = "queued"
             /\ messages'[rec].status = "queued"
             /\ Len(retryQueue') = Len(retryQueue) + 1
             /\ SubSeq(retryQueue', 1, Len(retryQueue)) = retryQueue
             /\ new \notin QueueRefs
             /\ items'[new].id = messages[rec].id
             /\ items'[new].payload = reqs[r].payload
             /\ items'[new].attempts = 0
             /\ Cardinality({k \in 1..Len(retryQueue') :
                               items'[retryQueue'[k]].id = messages[rec].id}) = 1
             /\ isProcessingQueue'
             /\ \E p \in 1..Len(procs') : procs'[p].pc \in {"forwarding", "backoff"} ]_vars

\* a request answered 202 whose item was appended behind an older item
C2_Witness ==
    \E r \in Reqs :
        /\ reqs[r].status = 202
        /\ Len(retryQueue) >= 2
        /\ items[retryQueue[Len(retryQueue)]].id = messages[reqs[r].rec].id

\* ---- C3 -------------------------------------------------------------------
\* C3: when the immediate forward succeeds, the caller gets 200 with the ack the Command
\* service returned, the request's one record is forwarded and stores that same ack, and
\* no retry item is created for it.
C3_ForwardedAtOnce ==
    /\ [](Cardinality({r \in Reqs : reqs[r].rec # 0}) = Len(messages))
    /\ [][ \A r \in Reqs : (SubmitCompletes(r) /\ commandOk) =>
             LET rec == reqs[r].rec
             IN /\ reqs'[r].status = 200
                /\ rec \in Recs
                /\ \A r2 \in Reqs : reqs[r2].rec = rec => r2 = r
                /\ Len(messages') = Len(messages)
                /\ messages'[rec].raw = reqs[r].payload
                /\ messages'[rec].status = "forwarded"
                /\ delivered'[rec] # NotDelivered
                /\ delivered'[rec] \in Acks =>
                      /\ messages'[rec].ack = delivered'[rec]
                      /\ reqs'[r].body = delivered'[rec]
                /\ reqs'[r].body = messages'[rec].ack
                /\ items' = items /\ retryQueue' = retryQueue
                /\ \A k \in 1..Len(items') : items'[k].id # messages[rec].id ]_vars

\* a request answered 200 carrying the ack the Command service sent
C3_Witness ==
    \E r \in Reqs :
        /\ reqs[r].status = 200
        /\ reqs[r].body \in Acks
        /\ messages[reqs[r].rec].ack = reqs[r].body
        /\ delivered[reqs[r].rec] = reqs[r].body

\* ---- C4 -------------------------------------------------------------------
\* C4: at most one processQueue invocation is inside its loop at any time, and a
\* processQueue call made while isProcessingQueue is true starts no processor, starts no
\* forward and leaves the flag alone.
C4_SingleProcessor ==
    /\ [](Cardinality(Active) <= 1)
    /\ [](Active # {} => isProcessingQueue)
    /\ [][ \A r \in Reqs : (SubmitCompletes(r) /\ ~commandOk /\ isProcessingQueue) =>
             /\ procs' = procs
             /\ isProcessingQueue' ]_vars

\* a second submit failed while the processor was suspended: two items, still one processor
C4_Witness ==
    /\ Cardinality({r \in Reqs : reqs[r].status = 202}) >= 2
    /\ Len(procs) = 1
    /\ Len(retryQueue) = 2

\* ---- C5 -------------------------------------------------------------------
\* C5 as claimed: at most one forward from the Relay to the Command service is in flight.
C5_OneForwardInFlight ==
    Cardinality(SubmitForwards) + Cardinality(ProcForwards) <= 1

\* C5 as amended: at most one forward issued by the queue processor is in flight; the
\* immediate forwards of submit handlers are not limited by it.
C5_OneProcessorForwardInFlight ==
    Cardinality(ProcForwards) <= 1

\* a processor forward in flight together with a submit handler forward
C5_Witness ==
    /\ Cardinality(ProcForwards) = 1
    /\ Cardinality(SubmitForwards) >= 1

\* ---- C6 -------------------------------------------------------------------
\* C6: the retry queue is strict FIFO: it always holds the items in the order they were
\* enqueued, a processor inside its loop works on the head and on nothing else (so a failed
\* head stays where it is), the queue changes only by an append at the tail or by the
\* removal of the head, and the head is removed exactly when the forward that carried its
\* payload succeeded.
C6_StrictFifo ==
    /\ [](\A j, k \in 1..Len(retryQueue) : j < k => retryQueue[j] < retryQueue[k])
    /\ [](\A p \in Active :
              /\ retryQueue # <<>>
              /\ procs[p].item = retryQueue[1]
              /\ procs[p].sending = items[retryQueue[1]].payload)
    /\ [][ \/ retryQueue' = retryQueue
           \/ /\ Len(retryQueue') = Len(retryQueue) + 1
              /\ SubSeq(retryQueue', 1, Len(retryQueue)) = retryQueue
              /\ retryQueue'[Len(retryQueue')] = Len(items')
              /\ Len(items') = Len(items) + 1
           \/ /\ retryQueue # <<>>
              /\ retryQueue' = Tail(retryQueue)
              /\ commandOk
              /\ \E p \in Procs :
                    /\ ProcCompletes(p)
                    /\ procs[p].item = retryQueue[1]
                    /\ procs[p].sending = items[retryQueue[1]].payload ]_vars

\* the older of two queued items has been forwarded and removed while the younger, enqueued
\* while the processor was suspended, is now the head in flight
C6_Witness ==
    /\ Len(items) = 2
    /\ retryQueue = <<2>>
    /\ Len(procs) = 1
    /\ procs[1].pc = "forwarding" /\ procs[1].item = 2
    /\ \E i \in Recs : messages[i].status = "forwarded" /\ failed[i] >= 1

\* ---- C7 -------------------------------------------------------------------
\* C7: a failed retry increments the head item's attempts by one and the processor then
\* sleeps min(60000, 1000 * 2^attempts) ms of the incremented value before it retries the
\* same head: 2000, 4000, 8000, 16000, 32000, 60000, 60000 ms for attempts 1..7 and never
\* more than 60000 ms.
C7_Table == <<2000, 4000, 8000, 16000, 32000, 60000, 60000>>

C7_DelayOf(n) == IF 1000 * (2 ^ n) < 60000 THEN 1000 * (2 ^ n) ELSE 60000

C7_Backoff ==
    /\ [](\A p \in Procs : procs[p].pc = "backoff" =>
              LET n == items[procs[p].item].attempts
              IN /\ n >= 1
                 /\ procs[p].delay = C7_DelayOf(n)
                 /\ n \in 1..7 => procs[p].delay = C7_Table[n]
                 /\ procs[p].delay <= 60000)
    /\ [][ \A p \in Procs :
             /\ (ProcCompletes(p) /\ ~commandOk) =>
                   /\ procs'[p].pc = "backoff"
                   /\ procs'[p].item = procs[p].item
                   /\ items'[procs[p].item].attempts = items[procs[p].item].attempts + 1
             /\ (procs[p].pc = "backoff" /\ procs'[p] # procs[p]) =>
                   /\ procs'[p].pc = "forwarding"
                   /\ procs'[p].item = procs[p].item
                   /\ items'[procs[p].item].attempts = items[procs[p].item].attempts ]_vars

\* the processor sleeps after the eighth failed retry of the head
C7_Witness ==
    \E p \in Procs :
        /\ procs[p].pc = "backoff"
        /\ items[procs[p].item].attempts = 8
        /\ procs[p].delay = 60000

\* ---- C8 -------------------------------------------------------------------
\* C8: an item leaves the retry queue only by a successful forward of that very item, which
\* leaves its record forwarded; a failed retry removes nothing however many attempts the
\* head has had; and an item behind the head has never been attempted by the processor
\* (attempts = 0) and its record is still queued.
C8_NeverGivesUp ==
    /\ [](\A k \in 2..Len(retryQueue) :
              /\ items[retryQueue[k]].attempts = 0
              /\ \A i \in Recs : messages[i].id = items[retryQueue[k]].id
                                    => messages[i].status = "queued")
    /\ [][ /\ \A ref \in QueueRefs :
                 (\A k \in 1..Len(retryQueue') : retryQueue'[k] # ref) =>
                     /\ commandOk
                     /\ ref = retryQueue[1]
                     /\ \E p \in Procs : ProcCompletes(p) /\ procs[p].item = ref
                     /\ \E i \in Recs :
                           /\ messages[i].id = items[ref].id
                           /\ messages[i].status = "queued"
                           /\ messages'[i].status = "forwarded"
           /\ \A p \in Procs : (ProcCompletes(p) /\ ~commandOk) =>
                 /\ retryQueue' = retryQueue
                 /\ messages' = messages ]_vars

\* the head has failed five retries and is still the head, with an untouched item behind it
C8_Witness ==
    /\ Len(retryQueue) = 2
    /\ items[retryQueue[1]].attempts >= 5
    /\ items[retryQueue[2]].attempts = 0

\* ---- C9 -------------------------------------------------------------------
\* C9: if from some point on every forward succeeds then, with timers and requests always
\* completing, eventually and for good no record is queued, every forwarded record holds
\* an ack, the retry queue is empty and isProcessingQueue is false.
C9_Drained ==
    /\ retryQueue = <<>>
    /\ ~isProcessingQueue
    /\ Active = {}
    /\ \A i \in Recs : messages[i].status # "queued"
    /\ \A i \in Recs : messages[i].status = "forwarded" => messages[i].ack # Undefined

C9_EventuallyDrained == (<>[]commandOk) => <>[]C9_Drained

\* the queue has drained after it held two items
C9_Witness ==
    /\ C9_Drained
    /\ Len(items) = 2
    /\ \A i \in Recs : messages[i].status = "forwarded" /\ failed[i] >= 1

\* ---- C10 ------------------------------------------------------------------
\* C10 as claimed: when a record's first two forward attempts failed and the third
\* succeeds, the record becomes forwarded with the ack of that attempt and its item's
\* attempts is 2 when the forward completes.
C10_ThirdAttempt(n) ==
    \A i \in Recs :
        (failed[i] = 2 /\ messages[i].status = "queued" /\ messages'[i].status = "forwarded") =>
            /\ delivered'[i] # NotDelivered
            /\ messages'[i].ack = AckOf(delivered'[i])
            /\ \E p \in Procs :
                  /\ ProcCompletes(p)
                  /\ items[procs[p].item].id = messages[i].id
                  /\ items[procs[p].item].attempts = n

C10_AttemptsIsTwo == [][C10_ThirdAttempt(2)]_vars

\* C10 as amended: ... and its item's attempts is 1 when the forward completes (attempts
\* counts the failed retries of the processor, not the failed immediate forward).
C10_AttemptsIsOne ==
    /\ [][C10_ThirdAttempt(1)]_vars
    /\ [](\A i \in Recs : messages[i].status = "forwarded" =>
              /\ delivered[i] # NotDelivered
              /\ messages[i].ack = AckOf(delivered[i]))

\* a record forwarded on its third attempt, holding the ack of that attempt
C10_Witness ==
    \E i \in Recs :
        /\ failed[i] = 2
        /\ messages[i].status = "forwarded"
        /\ delivered[i] \in Acks
        /\ messages[i].ack = delivered[i]

\* ---- C11 ------------------------------------------------------------------
\* C11: a submit whose payload is absent or empty is answered 400 and changes nothing in
\* the Relay: no record, no retry item, the queue, the flag and the processors as they
\* were, and no forward started.
C11_RejectLeavesRelayUnchanged ==
    [][ (Len(reqs') = Len(reqs) + 1 /\ reqs'[Len(reqs')].payload \in {EmptyPayload, Undefined}) =>
          /\ reqs'[Len(reqs')].status = 400
          /\ reqs'[Len(reqs')].pc = "done"
          /\ reqs'[Len(reqs')].rec = 0
          /\ SubSeq(reqs', 1, Len(reqs)) = reqs
          /\ messages' = messages
          /\ items' = items
          /\ retryQueue' = retryQueue
          /\ isProcessingQueue' = isProcessingQueue
          /\ procs' = procs ]_vars

\* an empty payload was rejected while an older payload sits in the retry queue
C11_Witness ==
    /\ Len(reqs) = 2
    /\ reqs[2].status = 400 /\ reqs[2].payload = EmptyPayload
    /\ Len(retryQueue) = 1 /\ isProcessingQueue
    /\ Len(messages) = 1

\* ---- vocabulary of the backend properties --------------------------------

Ingests == 1..Len(ingests)
Clients == 1..Len(clients)
LoggedBy(i) == \E k \in 1..Len(smsLogs) : smsLogs[k].by = i
StoredBy(i) == \E k \in 1..Len(sosEvents) : sosEvents[k].by = i
FramesBy(c, i) == {k \in 1..Len(inbox[c]) : inbox[c][k].by = i}
SentBy(i) == \E c \in Clients : FramesBy(c, i) # {}
\* request i ends in this step
IngestEnds(i) == ingests[i].pc # "done" /\ ingests'[i].pc = "done"

\* ---- C12 ------------------------------------------------------------------
\* C12: a POST /sos without raw is answered 400 and creates nothing: no sms_logs row, no
\* sos_events row, no ack and no frame to any subscriber.
C12_MissingRawRejected ==
    /\ [][ (Len(ingests') = Len(ingests) + 1 /\ ~ingests'[Len(ingests')].body.has) =>
             /\ ingests'[Len(ingests')].status = 400
             /\ ingests'[Len(ingests')].pc = "done"
             /\ smsLogs' = smsLogs /\ sosEvents' = sosEvents /\ inbox' = inbox ]_vars
    /\ [](\A i \in Ingests : ~ingests[i].body.has =>
              /\ ~LoggedBy(i) /\ ~StoredBy(i) /\ ~SentBy(i)
              /\ ingests[i].ack = NoAckYet)

\* a request without raw was rejected while another request is being processed
C12_Witness ==
    /\ Len(ingests) = 2
    /\ ingests[1].pc = "storing"
    /\ ~ingests[2].body.has /\ ingests[2].status = 400
    /\ Len(smsLogs) = 1

\* ---- C13 ------------------------------------------------------------------
\* C13: the raw payload of an accepted request is written to sms_logs untouched before
\* anything else happens for it: every sos_events row, every frame sent and every 200
\* answer belongs to a request that has its sms_logs row, there are never fewer sms_logs
\* rows than sos_events rows, and an sms_logs row is never removed, whatever happens to
\* the request later.
C13_LogFirst ==
    /\ [](\A i \in Ingests :
              /\ (StoredBy(i) \/ SentBy(i) \/ ingests[i].status = 200
                    \/ ingests[i].pc \in {"storing", "reading"}) => LoggedBy(i)
              /\ \A k \in 1..Len(smsLogs) : smsLogs[k].by = i => smsLogs[k].raw = ingests[i].body.raw)
    /\ [](Len(smsLogs) >= Len(sosEvents))
    /\ [][ /\ Len(smsLogs') >= Len(smsLogs)
           /\ SubSeq(smsLogs', 1, Len(smsLogs)) = smsLogs ]_vars

\* two requests interleaved: the later one already resolved, the earlier one failed after
\* its log write
C13_Witness ==
    /\ Len(ingests) = 2
    /\ ingests[2].status = 200 /\ ingests[1].status = 500
    /\ LoggedBy(1) /\ LoggedBy(2)
    /\ smsLogs[1].by = 2

\* ---- C14 ------------------------------------------------------------------
\* C14 as claimed: a request that failed after its sms_logs write is answered 500, its
\* sms_logs row remains, and it has neither a sos_events row nor an ack.
C14_NoEventAfterFailure ==
    \A i \in Ingests : (ingests[i].status = 500 /\ LoggedBy(i)) =>
        /\ ~StoredBy(i)
        /\ ingests[i].ack = NoAckYet
        /\ ~SentBy(i)

\* C14 as amended: a request that failed after its sms_logs write is answered 500, its
\* sms_logs row remains and no ack is returned or broadcast for it; it has no sos_events
\* row when the failing step was the sos_events insert, but when a later step failed (the
\* read of safe_bases) the sos_events row it had inserted remains.
C14_FailureKeepsWhatWasWritten ==
    /\ [](\A i \in Ingests : (ingests[i].status = 500 /\ LoggedBy(i)) =>
              /\ ingests[i].ack = NoAckYet
              /\ ~SentBy(i))
    /\ [][ \A i \in Ingests :
             /\ (IngestEnds(i) /\ ingests'[i].status = 500 /\ ingests[i].pc = "storing") =>
                   /\ LoggedBy(i)' /\ ~StoredBy(i)'
                   /\ inbox' = inbox
             /\ (IngestEnds(i) /\ ingests'[i].status = 500 /\ ingests[i].pc = "reading") =>
                   /\ LoggedBy(i)' /\ StoredBy(i)'
                   /\ inbox' = inbox
             /\ (IngestEnds(i) /\ ingests[i].pc \in {"storing", "reading"}) =>
                   ingests'[i].status \in {200, 500}
             /\ (LoggedBy(i) => LoggedBy(i)') /\ (StoredBy(i) => StoredBy(i)') ]_vars

\* a request answered 500 whose sos_events row exists
C14_Witness ==
    \E i \in Ingests : ingests[i].status = 500 /\ LoggedBy(i) /\ StoredBy(i)

\* ---- vocabulary of the resolution properties -----------------------------

Rows == 1..Len(input.bases)
\* the great-circle distance of row k of the directory to the alert position
Dist(k) == Haversine(input.lat, input.lon, input.bases[k].lat, input.bases[k].lon)
\* row k lies exactly at the alert position
AtAlert(k) == input.bases[k].lat = input.lat /\ input.bases[k].lon = input.lon
ZeroKm == [infinity |-> FALSE, hundredths |-> 0]
CapacityStatuses == {"AVAILABLE", "NEARLY_FULL", "FULL"}

\* ---- C15 ------------------------------------------------------------------
\* C15: the resolution selects a row whose distance to the alert position is minimal over
\* the whole directory; among rows at exactly the minimal distance it selects the first in
\* iteration order; for an empty directory the ack names NONE with capacity AVAILABLE.
C15_NearestIsFirstMinimum ==
    output.done =>
        IF input.bases = <<>>
        THEN /\ output.nearest = 0
             /\ output.ack.safeBase = "NONE"
             /\ output.ack.capacity = "AVAILABLE"
        ELSE /\ output.nearest \in Rows
             /\ \A j \in Rows : Dist(output.nearest) <= Dist(j)
             /\ \A j \in 1..(output.nearest - 1) : Dist(j) > Dist(output.nearest)
             /\ output.ack.safeBase = input.bases[output.nearest].id

\* two rows at the same non-zero distance, the first one selected
C15_Witness ==
    /\ output.done
    /\ input.bases = <<BaseTwin, BaseSholi>>
    /\ <<input.lat, input.lon>> = PSathya
    /\ output.ack.safeBase = "BASE_TWIN"

\* ---- C16 ------------------------------------------------------------------
\* C16: the capacity status depends on (capacity, filled) only: with free = capacity -
\* filled it is FULL when free <= 0, NEARLY_FULL when 0 < free < ceil(capacity / 5), and
\* AVAILABLE otherwise, for all capacity >= 0 and filled >= 0, filled > capacity included;
\* (80, 70) is NEARLY_FULL, (100, 10) is AVAILABLE and (100, 100) is FULL.
C16_ThreeWayThreshold ==
    output # "none" =>
        LET free == input.capacity - input.filled
        IN /\ output \in CapacityStatuses
           /\ output = "FULL" <=> free <= 0
           \* free < ceil(capacity / 5)  <=>  5 * free < capacity + 4 rounded down to a
           \* multiple of 5  <=>  5 * free < capacity, free being an integer
           /\ output = "NEARLY_FULL" <=> (0 < free /\ 5 * free < input.capacity)
           /\ output = "AVAILABLE" <=> (0 < free /\ 5 * free >= input.capacity)
           /\ (input.capacity = 80 /\ input.filled = 70) => output = "NEARLY_FULL"
           /\ (input.capacity = 100 /\ input.filled = 10) => output = "AVAILABLE"
           /\ (input.capacity = 100 /\ input.filled = 100) => output = "FULL"

\* a capacity that is no multiple of five, just below its threshold
C16_Witness ==
    /\ input.capacity = 6 /\ input.filled = 5
    /\ output = "NEARLY_FULL"

\* ---- C17 ------------------------------------------------------------------
\* C17: every ack carries a base id or NONE, a distance rendered as a fixed-point number
\* with exactly two decimals, and one of the three capacity statuses, for every directory,
\* the empty one included.
C17_AckWellFormed ==
    output.done =>
        /\ output.ack.safeBase \in {input.bases[k].id : k \in Rows} \cup {"NONE"}
        /\ ~output.ack.dist.infinity
        /\ output.ack.dist.hundredths \in Nat
        /\ output.ack.capacity \in CapacityStatuses

\* ---- C18 ------------------------------------------------------------------
\* C18: whenever exactly one row of the directory attains the minimal distance, every
\* reordering of the directory resolves the same alert position to the same base.
Reorderings(bs) ==
    {[k \in 1..Len(bs) |-> bs[p[k]]] :
        p \in {q \in [1..Len(bs) -> 1..Len(bs)] : \A j, k \in 1..Len(bs) : j # k => q[j] # q[k]}}
UniqueMinimum == \E n \in Rows : \A j \in Rows \ {n} : Dist(n) < Dist(j)
C18_OrderIndependent ==
    (output.done /\ UniqueMinimum) =>
        \A other \in Reorderings(input.bases) :
            /\ Nearest(other, input.lat, input.lon).nearest # 0
            /\ other[Nearest(other, input.lat, input.lon).nearest] = input.bases[output.nearest]
            /\ Ack(other, input.lat, input.lon) = output.ack

\* the unique nearest row is the last of the directory
C18_Witness ==
    /\ output.done
    /\ input.bases = <<BaseSathya, BaseSholi>>
    /\ <<input.lat, input.lon>> = PExample
    /\ output.ack.safeBase = "BASE_SHOLI"
    /\ UniqueMinimum

\* ---- C19 ------------------------------------------------------------------
\* C19: the distance of a point to itself is 0.00: an alert exactly at the position of a
\* row that has no row at the same position before it resolves to that row with DIST=0.00KM;
\* with the two preloaded rows an alert at BASE_SHOLI gives BASE_SHOLI, 0.00, AVAILABLE and
\* an alert at BASE_SATHYA gives BASE_SATHYA, 0.00, NEARLY_FULL.
C19_SelfDistanceZero ==
    output.done =>
        /\ ToFixed2(Haversine(input.lat, input.lon, input.lat, input.lon)) = ZeroKm
        /\ \A k \in Rows :
              (AtAlert(k) /\ \A j \in 1..(k - 1) : ~AtAlert(j)) =>
                  /\ output.ack.safeBase = input.bases[k].id
                  /\ output.ack.dist = ZeroKm
        /\ (input.bases = Preloaded /\ <<input.lat, input.lon>> = PSholi) =>
              output.ack = [safeBase |-> "BASE_SHOLI", dist |-> ZeroKm, capacity |-> "AVAILABLE"]
        /\ (input.bases = Preloaded /\ <<input.lat, input.lon>> = PSathya) =>
              output.ack = [safeBase |-> "BASE_SATHYA", dist |-> ZeroKm, capacity |-> "NEARLY_FULL"]

\* the alert lies at the second row, a nearer-than-everything row after a farther one
C19_Witness ==
    /\ output.done
    /\ input.bases = Preloaded
    /\ <<input.lat, input.lon>> = PSathya
    /\ output.ack.safeBase = "BASE_SATHYA"
    /\ output.ack.dist = ZeroKm

\* ---- C20 ------------------------------------------------------------------
\* C20: the fan-out is at most once and has no replay.  The step in which request i
\* computes its ack sends the frame of that request, carrying that ack, once to every
\* subscriber that is open in that step and to no other; no other step sends anything, so
\* a subscriber that was closed then, or connects later, never gets that frame; no
\* subscriber ever holds two frames of the same request, and every frame held belongs to a
\* request whose ack has been computed and carries it.
Broadcasts(i) == ingests[i].pc = "reading" /\ ingests'[i].pc = "done" /\ ingests'[i].status = 200
C20_FanOutAtMostOnce ==
    /\ [][ \A i \in Ingests : Broadcasts(i) =>
             /\ ingests'[i].ack # NoAckYet
             /\ \A c \in Clients :
                   IF clients[c] = "OPEN"
                   THEN inbox'[c] = Append(inbox[c], Frame(i, ingests[i].parsed, ingests'[i].ack))
                   ELSE inbox'[c] = inbox[c] ]_vars
    /\ [][ (\A i \in Ingests : ~Broadcasts(i)) =>
             /\ \A c \in Clients : inbox'[c] = inbox[c]
             /\ \A c \in 1..Len(clients') : c \notin Clients => inbox'[c] = <<>> ]_vars
    /\ [](\A c \in Clients : \A i \in Ingests :
              /\ Cardinality(FramesBy(c, i)) <= 1
              /\ \A k \in FramesBy(c, i) :
                    /\ ingests[i].status = 200
                    /\ inbox[c][k].ack = ingests[i].ack
                    /\ inbox[c][k].ack # NoAckYet)

\* the subscriber got the frame of the first request, closed, and the second request
\* resolved without sending it anything
C20_Witness ==
    /\ Len(ingests) = 2 /\ Len(clients) = 1
    /\ ingests[1].status = 200 /\ ingests[2].status = 200
    /\ clients[1] = "CLOSED"
    /\ Cardinality(FramesBy(1, 1)) = 1
    /\ FramesBy(1, 2) = {}

\* ---- vocabulary of the parsing properties --------------------------------

Tokens == 1..Len(input.tokens)
HasEq(t) == \E k \in 1..Len(t) : t[k] = "="
\* the position of the first '=' of a token that has one
FirstEq(t) == CHOOSE k \in 1..Len(t) : t[k] = "=" /\ \A j \in 1..(k - 1) : t[j] # "="
KeyOf(t) == SubSeq(t, 1, FirstEq(t) - 1)
\* all of the text after the first '='
RestOf(t) == SubSeq(t, FirstEq(t) + 1, Len(t))
\* the tokens of the input that carry key K, and the last of them
Carrying(K) == {i \in Tokens : HasEq(input.tokens[i]) /\ KeyOf(input.tokens[i]) = <<K>>}
LastCarrying(K) == CHOOSE i \in Carrying(K) : \A j \in Carrying(K) : j <= i
BareTokens == {i \in Tokens : ~HasEq(input.tokens[i])}

\* ---- C21 ------------------------------------------------------------------
\* C21: the raw payload is cut into tokens at '|'; a token with '=' gives the key before
\* its first '=' and, as value, all of the text after its first '=', further '=' included;
\* a token without '=' is kept as the flag only.
C21_ValueIsRestOfToken ==
    output.done =>
        /\ Split(input.raw, "|") = input.tokens
        /\ \A K \in KeyNames :
              IF Carrying(K) = {}
              THEN ~output.payload[K].found
              ELSE /\ output.payload[K].found
                   /\ output.payload[K].v = RestOf(input.tokens[LastCarrying(K)])
        /\ output.typeFlag.found <=> BareTokens # {}
        /\ \A i \in BareTokens :
              (\A j \in BareTokens : j <= i) => output.typeFlag.v = input.tokens[i]

\* ---- C22 ------------------------------------------------------------------
\* C22: no non-empty raw payload is rejected for its form.  Whatever the order of its
\* tokens, with bare words, absent keys, empty values or a LAT/LON that is no number, the
\* parse ends with deviceId 'UNKNOWN' when ID is absent or empty, lat and lon 0 when LAT and
\* LON are absent or no number, type 'UNKNOWN' when TYPE is absent or empty and the time of
\* the request when TIME is absent or empty; a field that is present in good form keeps
\* its value; and an ack naming a base, a distance and a capacity status is computed.
Absent(K) == Carrying(K) = {} \/ RestOf(input.tokens[LastCarrying(K)]) = <<>>
NoNumber(K) == Absent(K) \/ RestOf(input.tokens[LastCarrying(K)])[1] \notin Numeric
\* the last token carrying K has one '=' only
Plain(K) == ~HasEq(RestOf(input.tokens[LastCarrying(K)]))
C22_MalformedFieldsDefault ==
    output.done =>
        /\ IF Absent("ID") THEN output.parsed.deviceId = <<"UNKNOWN">>
           ELSE Plain("ID") => output.parsed.deviceId = RestOf(input.tokens[LastCarrying("ID")])
        /\ IF NoNumber("LAT") THEN output.parsed.lat = 0
           ELSE output.parsed.lat = NumberOf(RestOf(input.tokens[LastCarrying("LAT")])[1])
        /\ IF NoNumber("LON") THEN output.parsed.lon = 0
           ELSE output.parsed.lon = NumberOf(RestOf(input.tokens[LastCarrying("LON")])[1])
        /\ IF Absent("TYPE") THEN output.parsed.type = <<"UNKNOWN">>
           ELSE Plain("TYPE") => output.parsed.type = RestOf(input.tokens[LastCarrying("TYPE")])
        /\ IF Absent("TIME") THEN output.parsed.time = Now
           ELSE /\ output.parsed.time # Now
                /\ Plain("TIME") => output.parsed.time = RestOf(input.tokens[LastCarrying("TIME")])
        /\ output.ack # NoAckYet
        /\ output.ack.safeBase \in {bases[k].id : k \in 1..Len(bases)}
        /\ output.ack.capacity \in CapacityStatuses
        /\ ~output.ack.dist.infinity

\* a bare word, a LAT that is no number and an empty ID: all defaults, and an ack
C22_Witness ==
    /\ output.done
    /\ input.tokens = << <<"HELP">>, <<"LAT", "=", "abc">>, <<"ID", "=">> >>
    /\ output.parsed = [deviceId |-> <<"UNKNOWN">>, lat |-> 0, lon |-> 0,
                        type |-> <<"UNKNOWN">>, time |-> Now]
    /\ output.ack.safeBase = "BASE_SATHYA"

\* ---- C23 ------------------------------------------------------------------
\* C23: a payload the user app builds as SOS|ID=..|LAT=..|LON=..|DIR=..|TYPE=..|TIME=..
\* from a device id, a position, a direction, a type and a time is parsed by the backend
\* back to that device id, latitude, longitude, type and time.
C23_RoundTrip ==
    (output.done /\ input.sent # NotSent) =>
        /\ output.parsed.deviceId = <<input.sent.id>>
        /\ output.parsed.lat = input.sent.lat
        /\ output.parsed.lon = input.sent.lon
        /\ output.parsed.type = <<input.sent.type>>
        /\ output.parsed.time = <<input.sent.time>>

\* a generated device id, a position with a fraction, no compass
C23_Witness ==
    /\ output.done
    /\ input.sent.id = "HX7K2QP" /\ input.sent.dir = "N/A"
    /\ <<input.sent.lat, input.sent.lon>> = PSathya
    /\ output.parsed.lat = 130520 /\ output.parsed.lon = 802043
    /\ output.parsed.deviceId = <<"HX7K2QP">>

\* ---- C24 ------------------------------------------------------------------
\* C24: retry items and queued records correspond one to one: every item of the queue
\* names one existing record and that record is queued, every queued record is named by
\* exactly one item of the queue, and so the queueSize of GET /messages (retryQueue.length)
\* is the number of queued records.
QueuedRecs == {i \in Recs : messages[i].status = "queued"}
ItemsOf(i) == {k \in 1..Len(retryQueue) : items[retryQueue[k]].id = messages[i].id}
C24_QueueMatchesQueuedRecords ==
    /\ \A k \in 1..Len(retryQueue) :
          /\ Cardinality({i \in Recs : messages[i].id = items[retryQueue[k]].id}) = 1
          /\ \A i \in Recs : messages[i].id = items[retryQueue[k]].id => i \in QueuedRecs
    /\ \A i \in QueuedRecs : Cardinality(ItemsOf(i)) = 1
    /\ \A i \in Recs \ QueuedRecs : ItemsOf(i) = {}
    /\ Len(retryQueue) = Cardinality(QueuedRecs)

\* one record went through the queue and is forwarded, the other is still queued
C24_Witness ==
    /\ Len(messages) = 2
    /\ Len(retryQueue) = 1
    /\ \E i \in Recs : messages[i].status = "forwarded" /\ failed[i] >= 1
    /\ Cardinality(QueuedRecs) = 1

\* ---- C25 ------------------------------------------------------------------
\* C25: no lost wake-up.  Between the steps of the handlers, a non-empty retry queue always
\* has the flag set and one processor inside its loop; the flag is cleared, and a
\* processor leaves its loop, only with the queue empty; an item enqueued while the
\* processor is suspended starts no second processor and is in the queue of that one.
C25_NoLostWakeup ==
    /\ [](retryQueue # <<>> => (isProcessingQueue /\ Cardinality(Active) = 1))
    /\ [][ (isProcessingQueue /\ ~isProcessingQueue') => retryQueue' = <<>> ]_vars
    /\ [][ \A p \in Active : procs'[p].pc = "done" => retryQueue' = <<>> ]_vars
    /\ [][ (Len(retryQueue') > Len(retryQueue) /\ Active # {}) =>
             /\ procs' = procs
             /\ \A p \in Active : procs'[p].pc \in {"forwarding", "backoff"} ]_vars

\* an item was enqueued while the one processor sleeps in its backoff
C25_Witness ==
    /\ Len(retryQueue) = 2
    /\ Len(procs) = 1
    /\ procs[1].pc = "backoff"
    /\ items[retryQueue[2]].attempts = 0
    /\ isProcessingQueue

\* ---- C26 ------------------------------------------------------------------
\* the rows and frames the backend made of the forwards that carried record rec
LogsOf(rec) == {k \in 1..Len(smsLogs) : ingests[smsLogs[k].by].body.via.rec = rec}
EventsOf(rec) == {k \in 1..Len(sosEvents) : ingests[sosEvents[k].by].body.via.rec = rec}
FramesOf(rec, c) == {k \in 1..Len(inbox[c]) : ingests[inbox[c][k].by].body.via.rec = rec}

\* C26: delivery from the Relay to the Command service is at least once: a record is
\* 'forwarded' only when a forward of its payload was answered 200, and then the Command
\* service has logged the payload, stored its event and broadcast it, and the record holds
\* the ack of that answer.  It is not exactly once: the witness is a forwarded record whose
\* payload was logged, stored and broadcast twice, the first time by a forward the Relay
\* counted as failed.
C26_AtLeastOnce ==
    \A m \in 1..Len(messages) :
        messages[m].status = "forwarded" =>
            \E i \in 1..Len(ingests) :
                /\ ingests[i].body.via.rec = messages[m].id
                /\ ingests[i].body.raw = RawOf(messages[m].raw)
                /\ ingests[i].pc = "done"
                /\ ingests[i].status = 200
                /\ messages[m].ack = AckText(ingests[i].ack)
                /\ \E k \in LogsOf(messages[m].id) : smsLogs[k].by = i
                /\ \E k \in EventsOf(messages[m].id) : sosEvents[k].by = i
                /\ \A c \in 1..Len(clients) :
                       \E k \in FramesOf(messages[m].id, c) : inbox[c][k].by = i

C26_Witness ==
    \E m \in 1..Len(messages) :
        /\ messages[m].status = "forwarded"
        /\ failed[m] >= 1
        /\ Cardinality(LogsOf(messages[m].id)) >= 2
        /\ Cardinality(EventsOf(messages[m].id)) >= 2
        /\ \E c \in 1..Len(clients) : Cardinality(FramesOf(messages[m].id, c)) >= 2
        /\ \A k, l \in LogsOf(messages[m].id) : smsLogs[k].raw = smsLogs[l].raw

\* ---- C27 ------------------------------------------------------------------
\* the Command service accepts the payload of record i in this step: the forward that
\* carried it returns 2xx
Accepted(i) == delivered[i] = NotDelivered /\ delivered'[i] # NotDelivered

\* C27 as claimed: payloads are accepted by the Command service in the order of their
\* submission: when the payload of a record is accepted, no record submitted before it is
\* still waiting in the retry queue.
C27_SubmissionOrder ==
    [][ \A i \in Recs : Accepted(i) =>
          \A j \in 1..(i - 1) : messages[j].status # "queued" ]_vars

\* C27 as amended: payloads that wait in the retry queue are accepted in the order in
\* which they were queued: the payload of a queued record is accepted only when its item
\* is the head of the queue, all other queued records being behind it.  The payload of a
\* record that was never queued is accepted by the immediate forward of its own submit
\* handler, whatever waits in the queue.
C27_QueueOrderOnly ==
    [][ \A i \in Recs : Accepted(i) =>
          \/ /\ messages[i].status = "queued"
             /\ messages'[i].status = "forwarded"
             /\ ItemsOf(i) = {1}
             /\ \A j \in QueuedRecs \ {i} : \A k \in ItemsOf(j) : k > 1
             /\ retryQueue' = Tail(retryQueue)
          \/ /\ messages[i].status = "received"
             /\ messages'[i].status = "forwarded"
             /\ failed[i] = 0
             /\ \E r \in Reqs : reqs[r].rec = i /\ SubmitCompletes(r)
             /\ retryQueue' = retryQueue ]_vars

\* the younger payload was accepted at once while the older one, retried once already, is
\* still the head of the queue
C27_Witness ==
    /\ Len(messages) = 2
    /\ messages[1].status = "queued" /\ failed[1] >= 2
    /\ messages[2].status = "forwarded" /\ failed[2] = 0
    /\ delivered[2] # NotDelivered

\* ---- vocabulary of the user app properties --------------------------------

Presses == 1..Len(sends)
QueuedLocally(n) == sends[n].pc = "done" /\ sends[n].result = "QUEUED_LOCAL"
\* the item { id, payload } that press n queued locally
ItemOf(n) == [id |-> sends[n].id, payload |-> [time |-> sends[n].time]]
StoredItems == {ItemValue(smsQueue[k]) : k \in 1..Len(smsQueue)}

\* ---- C28 ------------------------------------------------------------------
\* C28: an item leaves the stored smsQueue only after the gateway answered 200 to a
\* submission of that item, and no item is lost: an item that was queued locally and has
\* had no 200 is in the stored queue, however presses and retry ticks interleave.
C28_NoItemLost ==
    /\ [](\A n \in Presses : (QueuedLocally(n) /\ ItemOf(n) \notin answered) =>
                                 ItemOf(n) \in StoredItems)
    /\ [][ \A it \in StoredItems : it \notin StoredItems' => it \in answered ]_vars

\* ---- C29 ------------------------------------------------------------------
\* C29: a payload that was queued locally makes at most one RelayMessageRecord at the
\* gateway: once a resubmission of it was answered 200 or 202 it is not submitted again.
C29_OneRecordPerItem ==
    \A n \in Presses : QueuedLocally(n) => gateway[n] <= 1

\* ---- C30 ------------------------------------------------------------------
\* C30: while a target device is selected, incoming data of another device is ignored:
\* remotePeerData is not set to data of a device other than the target, and the status
\* does not change because of such data.
C30_NonTargetIgnored ==
    [][ targetDeviceId # Null =>
          /\ (remotePeerData' # remotePeerData /\ remotePeerData' # NoPeerData) =>
                 remotePeerData'.deviceId = targetDeviceId
          /\ status' # status => remotePeerData'.deviceId = targetDeviceId ]_vars

====
